---- MODULE Spec2Model ----
(***************************************************************************)
(* UDP log viewer: the consumer pipeline of MainWindow (filter, exclude,   *)
(* timestamp, live file, pause buffer, display queue, flush) and the       *)
(* background receive loop of UdpListenerThread with its stop().           *)
(*                                                                         *)
(* Text is a sequence of one-character strings, so that substring tests,   *)
(* stripping and splitting are computed and not assumed.  A symbol longer  *)
(* than one character ("[UI/INFO] Listener stopped") stands for a fixed    *)
(* piece of text the program writes verbatim.                              *)
(***************************************************************************)
EXTENDS Integers, Sequences, FiniteSets, TLC

(* ------------------------------ bounds -------------------------------- *)

\* lines handed to the pipeline in one behaviour (UDP, simulation, replay)
MaxArrivals == 3
\* I/O failures (open, write, flush of the live file) in one behaviour
MaxFaults == 1
\* connections started in one behaviour
MaxConnects == 1
\* deque(maxlen=2000) of main.py:160, scaled
PauseCap == 2
\* drain_queue(..., max_items=300) of main.py:1199, scaled
FlushBatch == 2
\* REPLAY_LINES_PER_TICK = 40 of main.py:54, scaled
ReplayPerTick == 2
\* the floor 1000 of max_lines (main.py:1063) and DEFAULT_TRIM_CHUNK, scaled
MinMaxLines == 3
TrimChunk == 2
\* the largest max_lines the settings accept (500000 in main.py), scaled
MaxMaxLines == 6

SLOT_COUNT == 5
\* connections in one behaviour of the specifications that reconnect
MaxSessions == 2

(* ------------------------------- text --------------------------------- *)

Whitespace == {" ", "\t", "\r", "\n"}

Max(a, b) == IF a >= b THEN a ELSE b
Min(a, b) == IF a <= b THEN a ELSE b

\* Python: tok in line
Contains(line, tok) ==
    \E i \in 0..(Len(line) - Len(tok)) : SubSeq(line, i + 1, i + Len(tok)) = tok

RECURSIVE LStrip(_)
LStrip(s) == IF s # <<>> /\ Head(s) \in Whitespace THEN LStrip(Tail(s)) ELSE s

RECURSIVE RStrip(_)
RStrip(s) ==
    IF s # <<>> /\ s[Len(s)] \in Whitespace THEN RStrip(SubSeq(s, 1, Len(s) - 1)) ELSE s

\* Python: s.strip()
Strip(s) == RStrip(LStrip(s))

\* Python: s.split(sep) for a one-character separator: always at least one part
RECURSIVE SplitAcc(_, _, _)
SplitAcc(s, sep, cur) ==
    IF s = <<>> THEN <<cur>>
    ELSE IF Head(s) = sep THEN <<cur>> \o SplitAcc(Tail(s), sep, <<>>)
    ELSE SplitAcc(Tail(s), sep, Append(cur, Head(s)))

Split(s, sep) == SplitAcc(s, sep, <<>>)

\* Python: str(n) for the small numbers the model reaches
Digits == <<"0", "1", "2", "3", "4", "5", "6", "7", "8", "9">>

RECURSIVE Str(_)
Str(n) == IF n < 10 THEN <<Digits[n + 1]>> ELSE Str(n \div 10) \o <<Digits[(n % 10) + 1]>>

(* ------------------------ pattern rule engine ------------------------- *)

EmptySlot == [pattern |-> <<>>, mode |-> "Substring", color |-> "None"]

\* udp_log_utils._parse_tokens: split on ';', strip, drop empty tokens
_parse_tokens(text) ==
    LET parts == Split(text, ";")
        keep == SelectSeq(parts, LAMBDA t : Strip(t) # <<>>)
    IN  [i \in 1..Len(keep) |-> Strip(keep[i])]

\* re.compile(t) raises re.error: in the model's alphabet, an unclosed group
ReCompileFails(t) == Contains(t, <<"(">>)

\* re.compile(t) raises OverflowError, which is no re.error: a repeat count
\* of 2^32 or more, one character of the model's alphabet
ReCompileOverflows(t) == Contains(t, <<"{4294967296}">>)

\* compile_patterns and _compile_tokens catch re.error only
CompileRaises(text, mode) ==
    /\ mode = "Regex"
    /\ \E i \in 1..Len(_parse_tokens(text)) : ReCompileOverflows(_parse_tokens(text)[i])

\* udp_log_utils.compile_patterns
compile_patterns(text, mode) ==
    LET tokens == _parse_tokens(text)
    IN  IF tokens = <<>> THEN <<>>
        ELSE IF mode = "Regex"
             THEN LET ok == SelectSeq(tokens, LAMBDA t : ~ReCompileFails(t))
                  IN  [i \in 1..Len(ok) |-> [kind |-> "re", pat |-> ok[i]]]
             ELSE [i \in 1..Len(tokens) |-> [kind |-> "str", pat |-> tokens[i]]]

\* re.Pattern.search for the patterns of the model: a literal found anywhere
ReSearch(p, line) == Contains(line, p.pat)

\* MainWindow._compile_slot_patterns: blank slots and slots that compile to
\* nothing are left out
RECURSIVE _compile_slot_patterns(_)
_compile_slot_patterns(slots) ==
    IF slots = <<>> THEN <<>>
    ELSE LET s == Head(slots)
             rest == _compile_slot_patterns(Tail(slots))
         IN  IF Strip(s.pattern) = <<>> THEN rest
             ELSE LET pats == compile_patterns(s.pattern, s.mode)
                  IN  IF pats # <<>> THEN <<pats>> \o rest ELSE rest

\* MainWindow._match_all
_match_all(line, patterns) ==
    \A i \in 1..Len(patterns) :
        IF patterns[i].kind = "re" THEN ReSearch(patterns[i], line)
        ELSE Contains(line, patterns[i].pat)

\* the filter slots ORed
MatchIncludeAnySlot(s, line) ==
    IF s.filter_slot_patterns = <<>> THEN TRUE
    ELSE \E i \in 1..Len(s.filter_slot_patterns) :
            _match_all(line, s.filter_slot_patterns[i])

\* MainWindow._match_include_slots
_match_include_slots(s, line) ==
    IF s.filter_slot_patterns = <<>> THEN TRUE
    ELSE \A i \in 1..Len(s.filter_slot_patterns) :
            _match_all(line, s.filter_slot_patterns[i])

\* the exclude slots ANDed
MatchExcludeEverySlot(s, line) ==
    /\ s.exclude_slot_patterns # <<>>
    /\ \A i \in 1..Len(s.exclude_slot_patterns) :
            _match_all(line, s.exclude_slot_patterns[i])

\* MainWindow._match_exclude_slots
_match_exclude_slots(s, line) ==
    \E i \in 1..Len(s.exclude_slot_patterns) :
        _match_all(line, s.exclude_slot_patterns[i])

\* an exception leaves _compile_slot_patterns
SlotsRaise(slots) ==
    \E i \in 1..Len(slots) :
        Strip(slots[i].pattern) # <<>> /\ CompileRaises(slots[i].pattern, slots[i].mode)

\* MainWindow._rebuild_filter_patterns; an exception leaves the handler that
\* called it
_rebuild_filter_patterns(s) ==
    IF SlotsRaise(s.filter_slots) THEN [s EXCEPT !.uncaught = "OverflowError"]
    ELSE IF SlotsRaise(s.exclude_slots)
    THEN [s EXCEPT !.filter_slot_patterns = _compile_slot_patterns(s.filter_slots),
                   !.uncaught = "OverflowError"]
    ELSE [s EXCEPT !.filter_slot_patterns = _compile_slot_patterns(s.filter_slots),
                   !.exclude_slot_patterns = _compile_slot_patterns(s.exclude_slots)]

(* ----------------------------- highlighter ---------------------------- *)

\* highlighter._compile_tokens, after highlighter._parse_tokens
_compile_tokens(tokens, mode) ==
    IF tokens = <<>> THEN <<>>
    ELSE IF mode = "Regex"
         THEN LET ok == SelectSeq(tokens, LAMBDA t : ~ReCompileFails(t))
              IN  [i \in 1..Len(ok) |-> [kind |-> "re", pat |-> ok[i]]]
         ELSE [i \in 1..Len(tokens) |-> [kind |-> "str", pat |-> tokens[i]]]

\* highlighter._rule_matches
_rule_matches(line, compiled) ==
    IF compiled = <<>> THEN FALSE
    ELSE \A i \in 1..Len(compiled) :
            IF compiled[i].kind = "str" THEN Contains(line, compiled[i].pat)
            ELSE ReSearch(compiled[i], line)

\* str.lower for the colour names
Lower(name) ==
    CASE name = "None" -> "none"
      [] name = "Red" -> "red"
      [] name = "Green" -> "green"
      [] name = "Blue" -> "blue"
      [] name = "Orange" -> "orange"
      [] name = "Purple" -> "purple"
      [] name = "Gray" -> "gray"
      [] OTHER -> name

\* highlighter._color_from_name: the colour of the palette, or no colour
_color_from_name(name) ==
    IF Lower(name) \in {"", "none"} THEN "no colour"
    ELSE IF Lower(name) \in {"red", "green", "blue", "orange", "purple", "gray"}
    THEN Lower(name)
    ELSE "no colour"

\* HighlightRule.create
HighlightRule(pattern_text, mode, color_name) ==
    [pattern_text |-> pattern_text, mode |-> mode, color_name |-> color_name,
     compiled |-> _compile_tokens(_parse_tokens(pattern_text), mode)]

RECURSIVE HighlightRules(_)
HighlightRules(slots) ==
    IF slots = <<>> THEN <<>>
    ELSE LET s == Head(slots)
             rest == HighlightRules(Tail(slots))
         IN  IF Strip(s.pattern) = <<>> THEN rest
             ELSE IF Lower(s.color) = "none" THEN rest
             ELSE <<HighlightRule(s.pattern, s.mode, s.color)>> \o rest

\* the slots HighlightRule.create is called for
Highlighting(slots) ==
    SelectSeq(slots, LAMBDA s : Strip(s.pattern) # <<>> /\ Lower(s.color) # "none")

\* MainWindow._rebuild_highlight_rules and _apply_highlighter
_rebuild_highlight_rules(s) ==
    IF SlotsRaise(Highlighting(s.hl_slots)) THEN [s EXCEPT !.uncaught = "OverflowError"]
    ELSE [s EXCEPT !.hl_rules = HighlightRules(s.hl_slots)]

\* the last matching rule wins
RECURSIVE LastMatch(_, _)
LastMatch(rules, text) ==
    IF rules = <<>> THEN "default"
    ELSE LET r == rules[Len(rules)]
         IN  IF _color_from_name(r.color_name) # "no colour" /\ _rule_matches(text, r.compiled)
             THEN _color_from_name(r.color_name)
             ELSE LastMatch(SubSeq(rules, 1, Len(rules) - 1), text)

\* LogHighlighter.highlightBlock: the foreground colour given to the block
RECURSIVE FirstMatch(_, _)
FirstMatch(rules, text) ==
    IF rules = <<>> THEN "default"
    ELSE IF _color_from_name(Head(rules).color_name) = "no colour"
         THEN FirstMatch(Tail(rules), text)
         ELSE IF _rule_matches(text, Head(rules).compiled)
              THEN _color_from_name(Head(rules).color_name)
              ELSE FirstMatch(Tail(rules), text)

highlightBlock(rules, text) ==
    IF rules = <<>> \/ text = <<>> THEN "default" ELSE FirstMatch(rules, text)

(* ----------------------------- rule editing --------------------------- *)

\* PatternEditDialog.result_data: the pattern typed, stripped
result_data(slot) == [slot EXCEPT !.pattern = Strip(slot.pattern)]

\* MainWindow._find_first_free_slot; 0 stands for None
_find_first_free_slot(slots) ==
    IF \E i \in 1..Len(slots) : Strip(slots[i].pattern) = <<>>
    THEN CHOOSE i \in 1..Len(slots) :
            /\ Strip(slots[i].pattern) = <<>>
            /\ \A j \in 1..(i - 1) : Strip(slots[j].pattern) # <<>>
    ELSE 0

\* the assignments of the edit handlers: the slot moves when the dialog
\* names another index
EditedSlots(slots, idx, new_idx, slot) ==
    IF new_idx = idx THEN [slots EXCEPT ![idx] = slot]
    ELSE [slots EXCEPT ![new_idx] = slot, ![idx] = EmptySlot]

\* MainWindow.on_filter_add_clicked; the dialog was accepted with `slot` for
\* index `idx`
on_filter_add_clicked(s, idx, slot) ==
    IF _find_first_free_slot(s.filter_slots) = 0 THEN s
    ELSE _rebuild_filter_patterns([s EXCEPT !.filter_slots[idx] = result_data(slot)])

\* MainWindow.on_filter_edit_clicked
on_filter_edit_clicked(s, idx, new_idx, slot) ==
    _rebuild_filter_patterns(
        [s EXCEPT !.filter_slots = EditedSlots(s.filter_slots, idx, new_idx, result_data(slot))])

\* MainWindow.on_filter_remove_clicked
on_filter_remove_clicked(s, idx) ==
    IF ~(1 <= idx /\ idx <= SLOT_COUNT) THEN s
    ELSE _rebuild_filter_patterns([s EXCEPT !.filter_slots[idx] = EmptySlot])

\* MainWindow.on_filter_reset_clicked
on_filter_reset_clicked(s) ==
    LET cleared == _rebuild_filter_patterns(
                      [s EXCEPT !.filter_slots = [i \in 1..SLOT_COUNT |-> EmptySlot]])
    IN  IF cleared.uncaught # "none" THEN cleared
        ELSE [cleared EXCEPT !.log = Append(cleared.log, <<"[UI/INFO] Filter RESET">>)]

\* MainWindow.on_exclude_reset_clicked
on_exclude_reset_clicked(s) ==
    LET cleared == _rebuild_filter_patterns(
                      [s EXCEPT !.exclude_slots = [i \in 1..SLOT_COUNT |-> EmptySlot]])
    IN  IF cleared.uncaught # "none" THEN cleared
        ELSE [cleared EXCEPT !.log = Append(cleared.log, <<"[UI/INFO] Exclude RESET">>)]

\* MainWindow.on_exclude_add_clicked
on_exclude_add_clicked(s, idx, slot) ==
    IF _find_first_free_slot(s.exclude_slots) = 0 THEN s
    ELSE _rebuild_filter_patterns([s EXCEPT !.exclude_slots[idx] = result_data(slot)])

\* MainWindow.on_exclude_edit_clicked
on_exclude_edit_clicked(s, idx, new_idx, slot) ==
    _rebuild_filter_patterns(
        [s EXCEPT !.exclude_slots = EditedSlots(s.exclude_slots, idx, new_idx, result_data(slot))])

\* MainWindow.on_exclude_remove_clicked
on_exclude_remove_clicked(s, idx) ==
    IF ~(1 <= idx /\ idx <= SLOT_COUNT) THEN s
    ELSE _rebuild_filter_patterns([s EXCEPT !.exclude_slots[idx] = EmptySlot])

\* MainWindow.on_hl_add_clicked
on_hl_add_clicked(s, idx, slot) ==
    IF _find_first_free_slot(s.hl_slots) = 0 THEN s
    ELSE _rebuild_highlight_rules([s EXCEPT !.hl_slots[idx] = result_data(slot)])

\* MainWindow.on_hl_edit_clicked
on_hl_edit_clicked(s, idx, new_idx, slot) ==
    _rebuild_highlight_rules(
        [s EXCEPT !.hl_slots = EditedSlots(s.hl_slots, idx, new_idx, result_data(slot))])

\* MainWindow.on_hl_remove_clicked
on_hl_remove_clicked(s, idx) ==
    IF ~(1 <= idx /\ idx <= SLOT_COUNT) THEN s
    ELSE _rebuild_highlight_rules([s EXCEPT !.hl_slots[idx] = EmptySlot])

(* --------------------------- live log file ---------------------------- *)

\* MainWindow._format_timestamp_prefix: "%Y%m%d-%H:%M:%S." and the
\* milliseconds (microsecond // 1000) as three digits
Pad3(n) == (IF n < 10 THEN <<"0", "0">> ELSE IF n < 100 THEN <<"0">> ELSE <<>>) \o Str(n)

_format_timestamp_prefix(dt) == <<"D">> \o Str(dt.sec) \o <<".">> \o Pad3(dt.usec \div 1000)

\* the instants datetime.now() returns in the model, in the order of the clock
Instants == <<[sec |-> 5, usec |-> 999], [sec |-> 5, usec |-> 12000]>>

\* MainWindow._close_live_log
_close_live_log(s) ==
    [s EXCEPT !.last_session_log_path = s.live_log_path,
              !.live_log_handle = FALSE,
              !.live_log_path = 0]

\* MainWindow._open_new_live_log; the file is named after the start time,
\* `stamp`, and `fail` is open() or the header write raising
_open_new_live_log(s, stamp, fail) ==
    LET c == _close_live_log(s)
    IN  IF ~fail
        THEN [c EXCEPT !.live_log_handle = TRUE,
                       !.live_log_path = stamp,
                       !.file = <<<<"# UDP Log Viewer live session">>>>]
        ELSE [c EXCEPT !.live_log_handle = FALSE,
                       !.live_log_path = 0,
                       !.log = Append(c.log, <<"[UI/ERROR] Could not create live logfile">>)]

\* the write failure that is reported but leaves the session open
AppendToLiveLogKeepsSession(s, line, fail) ==
    IF ~s.live_log_handle THEN s
    ELSE IF ~fail THEN [s EXCEPT !.file = Append(s.file, line)]
    ELSE [s EXCEPT !.log = Append(s.log, <<"[UI/ERROR] Live logfile write failed">>)]

\* MainWindow._append_to_live_log; `fail` is write() raising
_append_to_live_log(s, line, fail) ==
    IF ~s.live_log_handle THEN s
    ELSE IF ~fail THEN [s EXCEPT !.file = Append(s.file, line)]
    ELSE _close_live_log(
            [s EXCEPT !.log = Append(s.log, <<"[UI/ERROR] Live logfile write failed">>)])

\* MainWindow._append_log_line
_append_log_line(s, line, dt, write_live, fail) ==
    LET out_line == IF s.timestamp_enabled
                    THEN _format_timestamp_prefix(dt) \o <<" ">> \o line
                    ELSE line
        shown == [s EXCEPT !.log = Append(s.log, out_line)]
    IN  IF write_live /\ shown.live_log_handle
        THEN _append_to_live_log(shown, out_line, fail)
        ELSE shown

\* what the lines written with write(line + "\n") make of a file
RECURSIVE FileText(_)
FileText(lines) ==
    IF lines = <<>> THEN <<>>
    ELSE Head(lines) \o <<"\n">> \o FileText(Tail(lines))

\* QPlainTextEdit.toPlainText: the blocks joined by "\n"
toPlainText(log) ==
    IF log = <<>> THEN <<>>
    ELSE SubSeq(FileText(log), 1, Len(FileText(log)) - 1)

\* the fallback of MainWindow.on_save_clicked: the content, and "\n" if it
\* does not end with one
SavedContent(content) ==
    IF content # <<>> /\ content[Len(content)] = "\n" THEN content
    ELSE content \o <<"\n">>

NoSave == [kind |-> "none", text |-> <<>>]

\* MainWindow.on_save_clicked: what it writes to the path of the dialog.
\* `chosen` is the dialog returning a path, `on_disk` the session file still
\* being there, `fail` the copy or the write raising
on_save_clicked(s, chosen, on_disk, fail) ==
    LET src == IF s.live_log_path # 0 THEN s.live_log_path
               ELSE IF s.last_session_log_path # 0 /\ on_disk THEN s.last_session_log_path
               ELSE 0
    IN  IF ~chosen THEN [kind |-> "cancelled", text |-> <<>>]
        ELSE IF src # 0 /\ on_disk
        THEN (IF fail THEN [kind |-> "copy_failed", text |-> <<>>]
              ELSE [kind |-> "copied", text |-> FileText(s.file)])
        ELSE IF fail THEN [kind |-> "save_failed", text |-> <<>>]
        ELSE [kind |-> "written", text |-> SavedContent(toPlainText(s.log))]

(* --------------------------- display queue ---------------------------- *)

\* the batch taken from the newest end of the queue
DrainQueueNewest(q, max_items) ==
    LET n == Min(max_items, Len(q))
    IN  [out |-> SubSeq(q, Len(q) - n + 1, Len(q)), rest |-> SubSeq(q, 1, Len(q) - n)]

\* udp_log_utils.drain_queue: the batch and what stays queued
drain_queue(q, max_items) ==
    LET n == Min(max_items, Len(q))
    IN  [out |-> SubSeq(q, 1, n), rest |-> SubSeq(q, n + 1, Len(q))]

DEFAULT_MAX_LINES == 4

\* QTextDocument.blockCount: an empty document still has one block
blockCount(log) == Max(1, Len(log))

\* the trim that does not count what it removes
EnforceLogLimitUncounted(s) ==
    LET max_lines == Max(MinMaxLines, IF s.max_lines # 0 THEN s.max_lines ELSE DEFAULT_MAX_LINES)
        remove_n == Min(TrimChunk, blockCount(s.log) - max_lines)
    IN  IF remove_n <= 0 THEN s
        ELSE [s EXCEPT !.log = SubSeq(s.log, remove_n + 1, Len(s.log))]

\* the trim that always removes a whole chunk
EnforceLogLimitWholeChunk(s) ==
    LET max_lines == Max(MinMaxLines, IF s.max_lines # 0 THEN s.max_lines ELSE DEFAULT_MAX_LINES)
        remove_n == Min(TrimChunk, Len(s.log))
    IN  IF blockCount(s.log) <= max_lines THEN s
        ELSE [s EXCEPT !.log = SubSeq(s.log, remove_n + 1, Len(s.log)),
                       !.trimmed_lines_total = s.trimmed_lines_total + remove_n]

\* MainWindow._enforce_log_limit
_enforce_log_limit(s) ==
    LET m0 == IF s.max_lines # 0 THEN s.max_lines ELSE DEFAULT_MAX_LINES
        max_lines == IF m0 < MinMaxLines THEN MinMaxLines ELSE m0
        blocks == blockCount(s.log)
        remove_n == Min(TrimChunk, blocks - max_lines)
    IN  IF blocks <= max_lines THEN s
        ELSE IF remove_n <= 0 THEN s
        ELSE [s EXCEPT !.log = SubSeq(s.log, remove_n + 1, Len(s.log)),
                       !.trimmed_lines_total = s.trimmed_lines_total + remove_n]

\* MainWindow._flush_log_queue; `fail` is the flush() of the live file raising
_flush_log_queue(s, fail) ==
    IF s.queue = <<>> THEN s
    ELSE LET d == drain_queue(s.queue, FlushBatch)
             shown == [s EXCEPT !.queue = d.rest, !.log = s.log \o d.out]
             flushed == IF shown.live_log_handle /\ fail
                        THEN _close_live_log(shown) ELSE shown
         IN  _enforce_log_limit(flushed)

\* _flush_log_queue statement by statement.  pc is the position of the
\* handler in progress and batch the local variable of the flush
\* the early returns and the drain
FlushEnter(s) ==
    IF s.queue = <<>> THEN s
    ELSE LET d == drain_queue(s.queue, FlushBatch)
         IN  IF d.out = <<>> THEN s
             ELSE [s EXCEPT !.queue = d.rest, !.batch = d.out, !.pc = "drained"]

\* the batch is appended to the display and the live file flushed
FlushShow(s, fail) ==
    LET shown == [s EXCEPT !.log = s.log \o s.batch, !.batch = <<>>, !.pc = "shown"]
    IN  IF shown.live_log_handle /\ fail THEN _close_live_log(shown) ELSE shown

\* the retention trim, and the return
FlushTrim(s) == [_enforce_log_limit(s) EXCEPT !.pc = "idle"]

\* a loop that hands out events while _start_listener is in progress
LoopIdleWhileConnecting(s) == s.pc \in {"idle", "started"}

\* a loop that hands out events while a flush is in progress
LoopIdleAlways(s) == TRUE

\* the event loop of the window (app.exec_) takes the next event when the
\* handler of the last one has returned; no statement of _flush_log_queue
\* runs a nested loop
LoopIdle(s) == s.pc = "idle"

\* MainWindow.on_clear_clicked
on_clear_clicked(s) == [s EXCEPT !.log = <<>>, !.trimmed_lines_total = 0]

(* ------------------------------ pipeline ------------------------------ *)

\* collections.deque(maxlen=cap).append: a full deque drops its oldest entry
DequeAppend(d, x, cap) ==
    IF Len(d) >= cap THEN Append(Tail(d), x) ELSE Append(d, x)

\* a slip: the overflow test compares with > instead of >=
PauseBufferPushLate(s, out_line) ==
    [s EXCEPT !.pause_dropped = IF Len(s.pause_buffer) > PauseCap
                                THEN s.pause_dropped + 1 ELSE s.pause_dropped,
              !.pause_buffer = DequeAppend(s.pause_buffer, out_line, PauseCap)]

\* the pause branch of MainWindow._on_line_received
PauseBufferPush(s, out_line) ==
    [s EXCEPT !.pause_dropped = IF Len(s.pause_buffer) >= PauseCap
                                THEN s.pause_dropped + 1 ELSE s.pause_dropped,
              !.pause_buffer = DequeAppend(s.pause_buffer, out_line, PauseCap)]

\* the text MainWindow._on_line_received writes and shows for `line`
OutLine(s, line, dt) ==
    IF s.timestamp_enabled
    THEN _format_timestamp_prefix(dt) \o <<" ">> \o line
    ELSE line

\* a slip: the exclude check is left out
OnLineReceivedNoExclude(s, line, dt, fail) ==
    IF ~_match_include_slots(s, line) THEN s
    ELSE LET out_line == OutLine(s, line, dt)
             logged == IF s.listener # 0
                       THEN _append_to_live_log(s, out_line, fail) ELSE s
         IN  IF logged.ui_paused
             THEN PauseBufferPush(logged, out_line)
             ELSE [logged EXCEPT !.queue = Append(logged.queue, out_line)]

\* a slip: the live file is written after the pause check
OnLineReceivedLogAfterPause(s, line, dt, fail) ==
    IF ~_match_include_slots(s, line) THEN s
    ELSE IF _match_exclude_slots(s, line) THEN s
    ELSE LET out_line == OutLine(s, line, dt)
         IN  IF s.ui_paused
             THEN PauseBufferPush(s, out_line)
             ELSE LET logged == IF s.listener # 0
                                THEN _append_to_live_log(s, out_line, fail) ELSE s
                  IN  [logged EXCEPT !.queue = Append(logged.queue, out_line)]

\* a slip: the prefix is computed again, later, for the text that is shown
OnLineReceivedStampsTwice(s, line, dt, fail) ==
    IF ~_match_include_slots(s, line) THEN s
    ELSE IF _match_exclude_slots(s, line) THEN s
    ELSE LET out_line == OutLine(s, line, dt)
             shown_line == OutLine(s, line, Instants[Len(Instants)])
             logged == IF s.listener # 0
                       THEN _append_to_live_log(s, out_line, fail) ELSE s
         IN  IF logged.ui_paused
             THEN PauseBufferPush(logged, shown_line)
             ELSE [logged EXCEPT !.queue = Append(logged.queue, shown_line)]

\* MainWindow._on_line_received
_on_line_received(s, line, dt, fail) ==
    IF ~_match_include_slots(s, line) THEN s
    ELSE IF _match_exclude_slots(s, line) THEN s
    ELSE LET out_line == OutLine(s, line, dt)
             logged == IF s.listener # 0
                       THEN _append_to_live_log(s, out_line, fail) ELSE s
         IN  IF logged.ui_paused
             THEN PauseBufferPush(logged, out_line)
             ELSE [logged EXCEPT !.queue = Append(logged.queue, out_line)]

\* MainWindow._ingest_line (replay injection)
_ingest_line(s, line) ==
    IF ~_match_include_slots(s, line) THEN s
    ELSE IF _match_exclude_slots(s, line) THEN s
    ELSE [s EXCEPT !.queue = Append(s.queue, line)]

RECURSIVE IngestAll(_, _)
IngestAll(s, lines) ==
    IF lines = <<>> THEN s ELSE IngestAll(_ingest_line(s, Head(lines)), Tail(lines))

\* MainWindow._replay_tick
_replay_tick(s) ==
    IF s.replay_lines = <<>> THEN [s EXCEPT !.replay_active = FALSE]
    ELSE LET n == Min(ReplayPerTick, Len(s.replay_lines))
         IN  IngestAll([s EXCEPT !.replay_lines = SubSeq(s.replay_lines, n + 1, Len(s.replay_lines))],
                       SubSeq(s.replay_lines, 1, n))

\* the marker line of resume
ResumeMarker(dropped) ==
    <<"[UI/INFO] Resume: ">> \o Str(dropped) \o <<" lines skipped while paused (showing latest tail).">>

\* a slip: the marker is enqueued behind the buffered lines
ResumeEnqueueMarkerLast(s) ==
    LET dropped == s.pause_dropped
        buffered == s.pause_buffer
        tail == IF dropped > 0 THEN <<ResumeMarker(dropped)>> ELSE <<>>
    IN  [s EXCEPT !.pause_buffer = <<>>,
                  !.pause_dropped = 0,
                  !.queue = s.queue \o buffered \o tail]

\* the resume that restarts the trim counter
ResumeEnqueueResetTrim(s) ==
    [s EXCEPT !.pause_buffer = <<>>,
              !.pause_dropped = 0,
              !.trimmed_lines_total = 0,
              !.queue = (IF s.pause_dropped > 0
                         THEN Append(s.queue, ResumeMarker(s.pause_dropped))
                         ELSE s.queue) \o s.pause_buffer]

\* a slip: the count of dropped lines survives the resume
ResumeEnqueueKeepsCount(s) ==
    LET dropped == s.pause_dropped
        buffered == s.pause_buffer
        marked == IF dropped > 0 THEN Append(s.queue, ResumeMarker(dropped)) ELSE s.queue
    IN  [s EXCEPT !.pause_buffer = <<>>,
                  !.queue = marked \o buffered]

\* a slip: the buffered lines are put in front of what is queued
ResumeEnqueueBufferFirst(s) ==
    LET dropped == s.pause_dropped
        buffered == s.pause_buffer
        marker == IF dropped > 0 THEN <<ResumeMarker(dropped)>> ELSE <<>>
    IN  [s EXCEPT !.pause_buffer = <<>>,
                  !.pause_dropped = 0,
                  !.queue = marker \o buffered \o s.queue]

\* the resume branch of MainWindow.on_pause_toggled, up to the forced flush
ResumeEnqueue(s) ==
    LET dropped == s.pause_dropped
        buffered == s.pause_buffer
        marked == IF dropped > 0 THEN Append(s.queue, ResumeMarker(dropped)) ELSE s.queue
    IN  [s EXCEPT !.pause_buffer = <<>>,
                  !.pause_dropped = 0,
                  !.queue = marked \o buffered]

\* a resume that leaves the flush to the next tick
OnPauseToggledNoFlush(s, fail) ==
    IF s.listener = 0
    THEN [s EXCEPT !.ui_paused = FALSE, !.pause_buffer = <<>>, !.pause_dropped = 0]
    ELSE LET t == [s EXCEPT !.ui_paused = ~s.ui_paused]
         IN  IF t.ui_paused THEN t ELSE ResumeEnqueue(t)

\* MainWindow.on_pause_toggled; the click has toggled the checkable button,
\* whose state always equals _ui_paused before the click
on_pause_toggled(s, fail) ==
    IF s.listener = 0
    THEN [s EXCEPT !.ui_paused = FALSE, !.pause_buffer = <<>>, !.pause_dropped = 0]
    ELSE LET t == [s EXCEPT !.ui_paused = ~s.ui_paused]
         IN  IF t.ui_paused THEN t
             ELSE _flush_log_queue(ResumeEnqueue(t), fail)

(* ----------------------- connect and disconnect ----------------------- *)

\* MainWindow._on_rx_stats
_on_rx_stats(s, packets, lines) == [s EXCEPT !.rx_packets = packets, !.rx_lines = lines]

\* MainWindow._on_listener_error
_on_listener_error(s, msg, dt, fail) ==
    _append_log_line(s, <<"[UI/ERROR] ">> \o msg, dt, TRUE, fail)

\* MainWindow._on_listener_status: the message goes to the status bar
_on_listener_status(s, msg) == s

DigitValue(c) == CHOOSE d \in 0..9 : Digits[d + 1] = c

RECURSIVE DecimalValue(_)
DecimalValue(ds) ==
    IF ds = <<>> THEN 0
    ELSE DecimalValue(SubSeq(ds, 1, Len(ds) - 1)) * 10 + DigitValue(ds[Len(ds)])

\* int(port_text): an optional sign and decimal digits, anything else raises
ParseInt(text) ==
    LET signed == text # <<>> /\ text[1] \in {"+", "-"}
        ds == IF signed THEN Tail(text) ELSE text
        ok == ds # <<>> /\ \A i \in 1..Len(ds) : \E d \in 1..10 : Digits[d] = ds[i]
    IN  [ok |-> ok,
         value |-> IF ~ok THEN 0
                   ELSE IF signed /\ text[1] = "-" THEN 0 - DecimalValue(ds)
                   ELSE DecimalValue(ds)]

\* a slip: the range test has no upper end
PortOfNoUpperBound(port_text) ==
    LET p == ParseInt(Strip(port_text))
    IN  IF p.ok /\ 1 <= p.value THEN p.value ELSE 0

\* the port validation of MainWindow._start_listener: the port, or 0 when the
\* request is refused
PortOf(port_text) ==
    LET p == ParseInt(Strip(port_text))
    IN  IF Strip(port_text) = <<>> THEN 0
        ELSE IF ~p.ok THEN 0
        ELSE IF ~(1 <= p.value /\ p.value <= 65535) THEN 0
        ELSE p.value

\* `self.ed_bind_ip.text().strip() or "0.0.0.0"`
BindOf(bind_text) == IF Strip(bind_text) = <<>> THEN <<"0.0.0.0">> ELSE Strip(bind_text)

\* MainWindow._start_listener
_start_listener(s, bind_text, port_text, id, open_fail) ==
    IF s.listener # 0 THEN s
    ELSE IF PortOf(port_text) = 0 THEN s
    ELSE _open_new_live_log(
            [s EXCEPT !.bind_ip = BindOf(bind_text), !.port = PortOf(port_text),
                      !.rx_packets = 0, !.rx_lines = 0, !.listener = id],
            id, open_fail)

\* MainWindow._stop_listener
_stop_listener(s) ==
    IF s.listener = 0 THEN s
    ELSE _close_live_log([s EXCEPT !.listener = 0])

\* MainWindow.on_settings_edited; the texts are those of the three fields
on_settings_edited(s, bind_text, port_text, ml_text) ==
    LET port == ParseInt(Strip(port_text))
        ml == ParseInt(Strip(ml_text))
    IN  [s EXCEPT !.bind_ip = BindOf(bind_text),
                  !.port = IF port.ok THEN port.value ELSE s.port,
                  !.max_lines = IF ml.ok
                                THEN Max(MinMaxLines, Min(MaxMaxLines, ml.value))
                                ELSE s.max_lines]

\* _start_listener up to t.start(), the port being valid
StartThread(s, bind_text, port_text, id) ==
    [s EXCEPT !.bind_ip = BindOf(bind_text), !.port = PortOf(port_text),
              !.rx_packets = 0, !.rx_lines = 0, !.listener = id, !.pc = "started"]

\* the rest of _start_listener and of the connect branch of
\* on_connect_toggled
OpenSession(s, dt, open_fail) ==
    LET opened == _open_new_live_log(s, s.listener, open_fail)
        shown == _append_log_line([opened EXCEPT !.ui_paused = FALSE, !.pc = "idle"],
                                  <<"[UI/INFO] Listening">>, dt, FALSE, FALSE)
    IN  IF shown.live_log_path # 0
        THEN [shown EXCEPT !.log = Append(shown.log, <<"[UI/INFO] Live logfile">>)]
        ELSE shown

\* MainWindow.on_connect_toggled, connect requested
ConnectRequested(s, bind_text, port_text, id, dt, open_fail) ==
    IF s.listener = 0 /\ PortOf(port_text) = 0 THEN s
    ELSE LET started == _start_listener(s, bind_text, port_text, id, open_fail)
             shown == _append_log_line([started EXCEPT !.ui_paused = FALSE],
                                       <<"[UI/INFO] Listening">>, dt, FALSE, FALSE)
         IN  IF shown.live_log_path # 0
             THEN [shown EXCEPT !.log = Append(shown.log, <<"[UI/INFO] Live logfile">>)]
             ELSE shown

\* a disconnect that hands the buffered lines to the display queue
DisconnectEnqueuesBuffer(s, clicked, dt) ==
    IF s.listener # 0 /\ clicked = "cancel" THEN s
    ELSE LET stopped == _stop_listener(s)
             reset == [stopped EXCEPT !.sim_enabled = FALSE,
                                      !.ui_paused = FALSE,
                                      !.queue = stopped.queue \o stopped.pause_buffer,
                                      !.pause_buffer = <<>>,
                                      !.pause_dropped = 0]
         IN  _append_log_line(reset, <<"[UI/INFO] Listener stopped">>, dt, FALSE, FALSE)

\* MainWindow.on_connect_toggled, disconnect requested; `clicked` is the
\* button of the dialog
DisconnectRequested(s, clicked, dt) ==
    IF s.listener # 0 /\ clicked = "cancel" THEN s
    ELSE LET stopped == _stop_listener(s)
             reset == [stopped EXCEPT !.sim_enabled = FALSE,
                                      !.ui_paused = FALSE,
                                      !.pause_buffer = <<>>,
                                      !.pause_dropped = 0]
         IN  _append_log_line(reset, <<"[UI/INFO] Listener stopped">>, dt, FALSE, FALSE)

(* ------------------------ listener: pure parts ------------------------ *)

\* bytes.decode("utf-8", errors="replace"): a byte that is no UTF-8 becomes
\* U+FFFD; the datagram is a sequence of bytes, "xFF" an invalid one
DecodeByte(b) == IF b = "xFF" THEN "uFFFD" ELSE b

Decode(data) == [i \in 1..Len(data) |-> DecodeByte(data[i])]

\* str.replace("\r\n", "\n")
RECURSIVE ReplaceCRLF(_)
ReplaceCRLF(s) ==
    IF s = <<>> THEN <<>>
    ELSE IF Len(s) >= 2 /\ s[1] = "\r" /\ s[2] = "\n"
         THEN <<"\n">> \o ReplaceCRLF(SubSeq(s, 3, Len(s)))
         ELSE <<Head(s)>> \o ReplaceCRLF(Tail(s))

\* str.replace("\r", "\n")
ReplaceCR(s) == [i \in 1..Len(s) |-> IF s[i] = "\r" THEN "\n" ELSE s[i]]

\* a slip: only CRLF is normalised, a lone CR stays in the line
SplitLinesNoCR(text) ==
    SelectSeq(Split(ReplaceCRLF(text), "\n"), LAMBDA p : Strip(p) # <<>>)

\* UdpListenerThread._split_lines
_split_lines(text) ==
    SelectSeq(Split(ReplaceCR(ReplaceCRLF(text)), "\n"), LAMBDA p : Strip(p) # <<>>)

\* the events a listener emits
StatusEvent(msg) == [type |-> "status", text |-> <<msg>>, packets |-> 0, lines |-> 0]
ErrorEvent(msg, errno) == [type |-> "error", text |-> <<msg, errno>>, packets |-> 0, lines |-> 0]
LineEvent(line) == [type |-> "line", text |-> line, packets |-> 0, lines |-> 0]
StatsEvent(p, l) == [type |-> "stats", text |-> <<>>, packets |-> p, lines |-> l]

LineEvents(lines) == [i \in 1..Len(lines) |-> LineEvent(lines[i])]

\* the errors of an operation on a socket that stop() has closed
ClosedErrnos == {"EBADF", "ValueError"}

\* UdpListenerThread._is_ebadf
_is_ebadf(e) == e = "EBADF"

\* lines 100-113 of UdpListenerThread.run: one datagram is counted, decoded,
\* split and emitted; the thread and the events it has emitted
ProcessDatagram(l, ev) ==
    LET text == Decode(l.data)
        lines == _split_lines(text)
        packets == l.packets + 1
        nlines == l.lines + Len(lines)
    IN  [lt |-> [l EXCEPT !.packets = packets, !.lines = nlines,
                          !.data = <<>>, !.pc = "loop"],
         events |-> ev \o LineEvents(lines) \o <<StatsEvent(packets, nlines)>>]

\* a slip: the handler reports the error whether stop was requested or not
SelectFailedAlwaysReported(l) == [l EXCEPT !.pc = "select_emit"]

\* `except (OSError, ValueError)` around select: lines 76-81
SelectFailed(l) ==
    IF l.stop_evt \/ _is_ebadf(l.exc) THEN [l EXCEPT !.pc = "finally", !.exc = "none"]
    ELSE [l EXCEPT !.pc = "select_emit"]

\* a failed receive ends the loop without a word
RecvFailedSilent(l) == [l EXCEPT !.pc = "finally", !.exc = "none"]

\* `except OSError` around recvfrom: lines 88-93
RecvFailed(l) ==
    IF l.stop_evt \/ l.exc \in {"EBADF", "EINVAL"}
    THEN [l EXCEPT !.pc = "finally", !.exc = "none"]
    ELSE [l EXCEPT !.pc = "recv_emit"]

\* the except clause of run() reporting nothing
RunFailedSilent(l) == [l EXCEPT !.pc = "finally", !.exc = "none"]

\* `except Exception` of run: lines 115-118
RunFailed(l) ==
    IF ~l.stop_evt THEN [l EXCEPT !.pc = "except_emit"]
    ELSE [l EXCEPT !.pc = "finally", !.exc = "none"]

\* a slip: the loop never looks at the stop flag
LoopHeadNoStop(l) == [l EXCEPT !.pc = "select"]

\* `while not self._stop_evt.is_set()`: line 73
LoopHead(l) == [l EXCEPT !.pc = IF l.stop_evt THEN "finally" ELSE "select"]

\* a slip: stop() closes the socket without try/except
StopCloseUnguarded(l, c) ==
    IF l._sock THEN [lt |-> [l EXCEPT !.open = FALSE], st |-> c]
    ELSE [lt |-> l, st |-> [c EXCEPT !.raised = TRUE]]

\* `try: self._sock.close() except Exception: pass` of stop(): lines 42-45;
\* _sock is read again, and is None when run() has cleared it meanwhile
StopClose(l, c) ==
    IF l._sock THEN [lt |-> [l EXCEPT !.open = FALSE], st |-> c]
    ELSE [lt |-> l, st |-> [c EXCEPT !.caught = TRUE]]

(* ------------------------------- state -------------------------------- *)

VARIABLES
    mw,         \* the fields of MainWindow; `file`: the lines of the live file;
                \* pc: the position of the handler in progress; batch: the local
                \* variable of _flush_log_queue
    last,       \* the handler that ran last, and the line it was given
    heard,      \* the texts _on_line_received accepted since the pause began
    clock,      \* the index in Instants of what datetime.now() returns
    arrivals,   \* lines handed to the pipeline so far
    faults,     \* I/O failures so far
    nconn,      \* listeners started so far
    lt,         \* a UdpListenerThread: its fields, the locals and position of run()
    st,         \* the caller of stop(): its position in stop()
    events,     \* the events the listener has emitted, in order (with the window
                \* running too: those it has not handled yet)
    lerrs       \* errors of the operating system met by the listener so far

cvars == <<mw, last, heard, clock, arrivals, faults, nconn>>
lvars == <<lt, st, events, lerrs>>
vars == <<mw, last, heard, clock, arrivals, faults, nconn, lt, st, events, lerrs>>

\* UdpListenerThread.__init__; run() has not executed a statement yet
NewThread ==
    [pc |-> "start", stop_evt |-> FALSE, _sock |-> FALSE, sock |-> FALSE, open |-> FALSE,
     packets |-> 0, lines |-> 0, exc |-> "none", data |-> <<>>, bind_failed |-> FALSE]

NoCaller == [pc |-> "idle", calls |-> 0, raised |-> FALSE, caught |-> FALSE, at |-> "none"]

\* the text of the lines that arrive
Lines == {<<"A">>, <<"B">>, <<"X", "A">>}

Slots(s0, s1) == <<s0, s1, EmptySlot, EmptySlot, EmptySlot>>

Sub(p) == [pattern |-> p, mode |-> "Substring", color |-> "None"]

\* the filter and exclude slots QSettings may hold at start-up
RuleConfigs ==
    {[filter |-> Slots(EmptySlot, EmptySlot), exclude |-> Slots(EmptySlot, Sub(<<"X">>))],
     [filter |-> Slots(Sub(<<"A">>), EmptySlot), exclude |-> Slots(EmptySlot, EmptySlot)],
     [filter |-> Slots(Sub(<<"A">>), EmptySlot), exclude |-> Slots(EmptySlot, Sub(<<"X">>))]}

\* MainWindow.__init__; `ts` is the timestamp setting _load_settings finds
InitWindow(fs, xs, ts) ==
    _rebuild_filter_patterns(
        [listener |-> 0, rx_packets |-> 0, rx_lines |-> 0,
         bind_ip |-> <<"0.0.0.0">>, port |-> 10514,
         queue |-> <<>>,
         ui_paused |-> FALSE, pause_buffer |-> <<>>, pause_dropped |-> 0,
         sim_enabled |-> FALSE,
         replay_lines |-> <<>>, replay_active |-> FALSE,
         filter_slots |-> fs, exclude_slots |-> xs,
         filter_slot_patterns |-> <<>>, exclude_slot_patterns |-> <<>>,
         hl_slots |-> <<EmptySlot, EmptySlot, EmptySlot, EmptySlot, EmptySlot>>,
         hl_rules |-> <<>>, uncaught |-> "none",
         trimmed_lines_total |-> 0, pc |-> "idle", batch |-> <<>>,
         live_log_path |-> 0, live_log_handle |-> FALSE, last_session_log_path |-> 0,
         timestamp_enabled |-> ts, max_lines |-> MinMaxLines,
         log |-> <<>>, file |-> <<>>])

NoOp == [op |-> "init", line |-> <<>>, save |-> NoSave, on_disk |-> FALSE, typed |-> <<>>]

now == Instants[clock]

Init ==
    /\ \E c \in RuleConfigs, ts \in BOOLEAN : mw = InitWindow(c.filter, c.exclude, ts)
    /\ last = NoOp
    /\ heard = <<>>
    /\ clock = 1
    /\ arrivals = 0
    /\ faults = 0
    /\ nconn = 0
    /\ lt = [NewThread EXCEPT !.pc = "none"]
    /\ st = NoCaller
    /\ events = <<>>
    /\ lerrs = 0

\* a line passes the include and the exclude check
Accepted(s, line) == _match_include_slots(s, line) /\ ~_match_exclude_slots(s, line)

\* an I/O failure is drawn only where the handler touches the open file
MayFail(fail, touches) == fail => (touches /\ faults < MaxFaults)

Fault(fail) == faults' = IF fail THEN faults + 1 ELSE faults

\* what was accepted while paused is remembered until the pause ends
Hear(line) ==
    heard' = IF ~mw'.ui_paused THEN <<>>
             ELSE IF mw.ui_paused /\ Accepted(mw, line)
             THEN Append(heard, OutLine(mw, line, now))
             ELSE heard

HearNothing == heard' = IF mw'.ui_paused /\ mw.ui_paused THEN heard ELSE <<>>

(* ------------------------------ actions ------------------------------- *)

\* a line_received event of a listener is delivered (it may still be queued
\* for the consumer after that listener was stopped)
UdpLine ==
    \E line \in Lines, fail \in BOOLEAN :
        /\ nconn > 0
        /\ arrivals < MaxArrivals
        /\ MayFail(fail, mw.listener # 0 /\ mw.live_log_handle /\ Accepted(mw, line))
        /\ mw' = _on_line_received(mw, line, now, fail)
        /\ last' = [NoOp EXCEPT !.op = "line", !.line = line]
        /\ Hear(line)
        /\ arrivals' = arrivals + 1
        /\ Fault(fail)
        /\ UNCHANGED <<lt, st, events, lerrs, clock, nconn>>

\* MainWindow._on_sim_tick; the timer runs while the simulation is on
SimTick ==
    \E line \in Lines, fail \in BOOLEAN :
        /\ mw.sim_enabled
        /\ arrivals < MaxArrivals
        /\ MayFail(fail, mw.listener # 0 /\ mw.live_log_handle /\ Accepted(mw, line))
        /\ mw' = IF ~mw.sim_enabled \/ mw.listener = 0 THEN mw
                 ELSE _on_line_received(mw, line, now, fail)
        /\ last' = [NoOp EXCEPT !.op = "line", !.line = line]
        /\ Hear(line)
        /\ arrivals' = arrivals + 1
        /\ Fault(fail)
        /\ UNCHANGED <<lt, st, events, lerrs, clock, nconn>>

\* MainWindow.on_simulate_toggled
SimToggle ==
    /\ mw' = IF ~mw.sim_enabled
             THEN (IF mw.listener = 0 THEN mw ELSE [mw EXCEPT !.sim_enabled = TRUE])
             ELSE [mw EXCEPT !.sim_enabled = FALSE]
    /\ last' = [NoOp EXCEPT !.op = "sim_toggle"]
    /\ HearNothing
    /\ UNCHANGED <<lt, st, events, lerrs, clock, arrivals, faults, nconn>>

\* MainWindow.on_replay_sample_clicked, on_open_log_clicked
ReplayStart ==
    \E a \in Lines, b \in Lines :
        /\ arrivals + 2 <= MaxArrivals
        /\ mw' = [mw EXCEPT !.replay_lines = <<a, b>>, !.replay_active = TRUE]
        /\ last' = [NoOp EXCEPT !.op = "replay_start"]
        /\ HearNothing
        /\ arrivals' = arrivals + 2
        /\ UNCHANGED <<lt, st, events, lerrs, clock, faults, nconn>>

\* MainWindow._replay_tick; the timer runs while the replay is active
ReplayTick ==
    /\ mw.replay_active
    /\ mw' = _replay_tick(mw)
    /\ last' = [NoOp EXCEPT !.op = "replay_tick"]
    /\ HearNothing
    /\ UNCHANGED <<lt, st, events, lerrs, clock, arrivals, faults, nconn>>

\* MainWindow.on_pause_toggled; the button is enabled only while connected
PauseToggle ==
    \E fail \in BOOLEAN :
        /\ mw.listener # 0
        /\ MayFail(fail, mw.ui_paused /\ mw.live_log_handle
                         /\ (mw.pause_buffer # <<>> \/ mw.queue # <<>>))
        /\ mw' = on_pause_toggled(mw, fail)
        /\ last' = [NoOp EXCEPT !.op = IF mw.ui_paused THEN "resume" ELSE "pause"]
        /\ HearNothing
        /\ Fault(fail)
        /\ UNCHANGED <<lt, st, events, lerrs, clock, arrivals, nconn>>

\* MainWindow._flush_log_queue on the 50 ms timer
FlushTick ==
    \E fail \in BOOLEAN :
        /\ MayFail(fail, mw.live_log_handle /\ mw.queue # <<>>)
        /\ mw' = _flush_log_queue(mw, fail)
        /\ last' = [NoOp EXCEPT !.op = "flush"]
        /\ HearNothing
        /\ Fault(fail)
        /\ UNCHANGED <<lt, st, events, lerrs, clock, arrivals, nconn>>

\* what may be typed in the port field and in the bind address field
PortTexts ==
    {<<>>, <<" ">>, <<"x">>, <<"1", "x">>, <<"-", "1">>, <<"0">>, <<"1">>,
     <<" ", "1", "0", "5", "1", "4", " ">>,
     <<"6", "5", "5", "3", "5">>, <<"6", "5", "5", "3", "6">>}

BindTexts == {<<>>, <<"0.0.0.0">>, <<" ", "::1">>, <<"localhost">>, <<"256.1.1.1">>}

\* the defaults of UiState, and an empty port field
DefaultBind == <<"0.0.0.0">>
DefaultPort == <<"1", "0", "5", "1", "4">>

\* MainWindow.on_connect_toggled with the button checked, for the given
\* contents of the two fields
ConnectWith(binds, ports, cap) ==
    \E bind_text \in binds, port_text \in ports, fail \in BOOLEAN :
        LET port_ok == PortOf(port_text) # 0
        IN  /\ mw.listener = 0
            /\ nconn < cap
            /\ MayFail(fail, port_ok)
            /\ mw' = ConnectRequested(mw, bind_text, port_text, nconn + 1, now, fail)
            /\ last' = [NoOp EXCEPT !.op = IF port_ok THEN "connect" ELSE "connect_rejected",
                                    !.typed = <<bind_text, port_text>>]
            /\ HearNothing
            /\ nconn' = IF port_ok THEN nconn + 1 ELSE nconn
            /\ Fault(fail)
            /\ UNCHANGED <<clock, arrivals>>

\* connect with the default fields, or with the port field empty
Connect ==
    /\ ConnectWith({DefaultBind}, {DefaultPort, <<>>}, MaxConnects)
    /\ UNCHANGED <<lt, st, events, lerrs>>

\* connect with anything typed in the two fields
ConnectAny ==
    /\ ConnectWith(BindTexts, PortTexts, MaxConnects)
    /\ UNCHANGED <<lt, st, events, lerrs>>

\* MainWindow.on_connect_toggled with the button unchecked, and the button
\* clicked in its dialog
DisconnectClicked(clicked) ==
    /\ mw.listener # 0
    /\ mw' = DisconnectRequested(mw, clicked, now)
    /\ last' = [NoOp EXCEPT !.op = IF clicked = "cancel" THEN "disconnect_cancelled"
                                   ELSE "disconnect"]
    /\ HearNothing
    /\ UNCHANGED <<clock, arrivals, faults, nconn>>

Disconnect ==
    \E clicked \in {"save", "no", "cancel"} :
        /\ DisconnectClicked(clicked)
        /\ UNCHANGED <<lt, st, events, lerrs>>

\* time passes
ClockTick ==
    /\ clock < Len(Instants)
    /\ mw.timestamp_enabled
    /\ clock' = clock + 1
    /\ UNCHANGED <<mw, last, heard, arrivals, faults, nconn, lt, st, events, lerrs>>

\* the pipeline fed by the listener
Next ==
    \/ UdpLine
    \/ PauseToggle
    \/ FlushTick
    \/ Connect
    \/ Disconnect

Spec == Init /\ [][Next]_vars

\* the Clear button
Clear ==
    /\ mw' = on_clear_clicked(mw)
    /\ last' = [NoOp EXCEPT !.op = "clear"]
    /\ HearNothing
    /\ UNCHANGED <<lt, st, events, lerrs, clock, arrivals, faults, nconn>>

ClearNext ==
    \/ UdpLine
    \/ PauseToggle
    \/ FlushTick
    \/ Connect
    \/ Disconnect
    \/ Clear

\* the pipeline with the Clear button, started with the exclude slot alone
\* and timestamps off
ClearInit ==
    /\ Init
    /\ mw.filter_slot_patterns = <<>>
    /\ ~mw.timestamp_enabled

ClearSpec == ClearInit /\ [][ClearNext]_vars

\* the Save button; the session file may have been removed from the disk
Save ==
    \E chosen \in BOOLEAN, on_disk \in BOOLEAN, fail \in BOOLEAN :
        /\ on_disk => mw.file # <<>>
        /\ fail => chosen
        /\ mw' = mw
        /\ last' = [NoOp EXCEPT !.op = "save",
                                !.save = on_save_clicked(mw, chosen, on_disk, fail),
                                !.on_disk = on_disk]
        /\ HearNothing
        /\ UNCHANGED <<lt, st, events, lerrs, clock, arrivals, faults, nconn>>

SaveNext ==
    \/ UdpLine
    \/ PauseToggle
    \/ FlushTick
    \/ Connect
    \/ Disconnect
    \/ Save

\* the pipeline with the Save button, started as ClearSpec is
SaveSpec == ClearInit /\ [][SaveNext]_vars

BindNext ==
    \/ ConnectAny
    \/ Disconnect
    \/ PauseToggle

\* connecting with arbitrary bind parameters, started as ClearSpec is
BindSpec == ClearInit /\ [][BindNext]_vars

\* the Connect button, as often as MaxSessions allows
Reconnect ==
    /\ ConnectWith({DefaultBind}, {DefaultPort}, MaxSessions)
    /\ UNCHANGED <<lt, st, events, lerrs>>

SessionNext ==
    \/ UdpLine
    \/ PauseToggle
    \/ FlushTick
    \/ Reconnect
    \/ Disconnect

\* what may stand in the max_lines field when its editing is finished
MaxLinesTexts == {Str(MinMaxLines), Str(MaxMaxLines), Str(MaxMaxLines + 1), <<"2">>, <<>>}

\* MainWindow.on_settings_edited: the editing of max_lines is finished
SettingsEdit ==
    \E ml_text \in MaxLinesTexts :
        /\ mw' = on_settings_edited(mw, mw.bind_ip, Str(mw.port), ml_text)
        /\ mw'.max_lines # mw.max_lines
        /\ last' = [NoOp EXCEPT !.op = "settings", !.typed = <<ml_text>>]
        /\ HearNothing
        /\ UNCHANGED <<lt, st, events, lerrs, clock, arrivals, faults, nconn>>

RetainNext ==
    \/ UdpLine
    \/ FlushTick
    \/ Connect
    \/ Disconnect
    \/ SettingsEdit

\* the display and its retention limit, started as ClearSpec is
RetainSpec == ClearInit /\ [][RetainNext]_vars

StampNext ==
    \/ UdpLine
    \/ PauseToggle
    \/ Connect
    \/ Disconnect
    \/ ClockTick

\* the pipeline while time passes, started with the exclude slot alone and
\* timestamps on or off
StampInit ==
    /\ Init
    /\ mw.filter_slot_patterns = <<>>

StampSpec == StampInit /\ [][StampNext]_vars

\* the handlers as the event loop runs them, _flush_log_queue step by step
LoopLine == LoopIdle(mw) /\ UdpLine

LoopConnect == LoopIdle(mw) /\ Connect

LoopDisconnect == LoopIdle(mw) /\ Disconnect

\* on_pause_toggled; on resume it calls _flush_log_queue itself
LoopPause ==
    /\ LoopIdle(mw)
    /\ mw.listener # 0
    /\ mw' = IF mw.ui_paused
             THEN FlushEnter(ResumeEnqueue([mw EXCEPT !.ui_paused = FALSE]))
             ELSE [mw EXCEPT !.ui_paused = TRUE]
    /\ last' = [NoOp EXCEPT !.op = IF mw.ui_paused THEN "resume" ELSE "pause"]
    /\ HearNothing
    /\ UNCHANGED <<lt, st, events, lerrs, clock, arrivals, faults, nconn>>

\* the 50 ms timer calls _flush_log_queue
LoopTick ==
    /\ LoopIdle(mw)
    /\ mw' = FlushEnter(mw)
    /\ last' = [NoOp EXCEPT !.op = "tick"]
    /\ HearNothing
    /\ UNCHANGED <<lt, st, events, lerrs, clock, arrivals, faults, nconn>>

F_Show ==
    \E fail \in BOOLEAN :
        /\ mw.pc = "drained"
        /\ MayFail(fail, mw.live_log_handle)
        /\ mw' = FlushShow(mw, fail)
        /\ last' = [NoOp EXCEPT !.op = "flush_show"]
        /\ HearNothing
        /\ Fault(fail)
        /\ UNCHANGED <<lt, st, events, lerrs, clock, arrivals, nconn>>

F_Trim ==
    /\ mw.pc = "shown"
    /\ mw' = FlushTrim(mw)
    /\ last' = [NoOp EXCEPT !.op = "flush_trim"]
    /\ HearNothing
    /\ UNCHANGED <<lt, st, events, lerrs, clock, arrivals, faults, nconn>>

LoopNext ==
    \/ LoopLine
    \/ LoopConnect
    \/ LoopDisconnect
    \/ LoopPause
    \/ LoopTick
    \/ F_Show
    \/ F_Trim

\* the event loop of the window, started as ClearSpec is
LoopSpec == ClearInit /\ [][LoopNext]_vars

\* the pipeline over several connections, started as ClearSpec is
SessionSpec == ClearInit /\ [][SessionNext]_vars

\* the pipeline fed by the listener, the simulation and the replay, started
\* with the exclude slot alone and timestamps off
InjectInit ==
    /\ Init
    /\ mw.filter_slot_patterns = <<>>
    /\ ~mw.timestamp_enabled

InjectNext ==
    \/ Next
    \/ SimTick
    \/ SimToggle
    \/ ReplayStart
    \/ ReplayTick

InjectSpec == InjectInit /\ [][InjectNext]_vars

(* ------------------------- rule editing: actions ---------------------- *)

\* rules (slots with a pattern) the user keeps at one time, over the three
\* lists
MaxRules == 2

\* what the user sets in the dialog: a literal (typed with a leading blank),
\* a regular expression, a token that does not compile beside one that does,
\* no token that compiles, and a repeat count that overflows
SlotChoices ==
    {EmptySlot,
     [pattern |-> <<" ", "A">>, mode |-> "Substring", color |-> "Red"],
     [pattern |-> <<"B">>, mode |-> "Regex", color |-> "Blue"],
     [pattern |-> <<"A", ";", "(">>, mode |-> "Regex", color |-> "None"],
     [pattern |-> <<"(", ";">>, mode |-> "Regex", color |-> "Red"],
     [pattern |-> <<"A", "{4294967296}">>, mode |-> "Regex", color |-> "Blue"]}

\* the slots the user edits
EditIdx == {1, 2}

\* the lines the rules are applied to
RuleLines == {<<"A">>, <<"B">>, <<"A", "B">>, <<"X">>}

HasChip(slots, idx) == Strip(slots[idx].pattern) # <<>>

RuleCount(s) ==
    Cardinality({i \in 1..SLOT_COUNT : HasChip(s.filter_slots, i)})
    + Cardinality({i \in 1..SLOT_COUNT : HasChip(s.exclude_slots, i)})
    + Cardinality({i \in 1..SLOT_COUNT : HasChip(s.hl_slots, i)})

RuleFrame ==
    /\ RuleCount(mw') <= MaxRules
    /\ UNCHANGED <<last, heard, clock, arrivals, faults, nconn, lt, st, events, lerrs>>

FilterAdd ==
    \E idx \in EditIdx, slot \in SlotChoices :
        /\ mw.uncaught = "none"
        /\ mw' = on_filter_add_clicked(mw, idx, slot)
        /\ RuleFrame

FilterEdit ==
    \E idx \in EditIdx, new_idx \in EditIdx, slot \in SlotChoices :
        /\ mw.uncaught = "none"
        /\ HasChip(mw.filter_slots, idx)
        /\ mw' = on_filter_edit_clicked(mw, idx, new_idx, slot)
        /\ RuleFrame

FilterRemove ==
    \E idx \in EditIdx :
        /\ mw.uncaught = "none"
        /\ HasChip(mw.filter_slots, idx)
        /\ mw' = on_filter_remove_clicked(mw, idx)
        /\ RuleFrame

ExcludeAdd ==
    \E idx \in EditIdx, slot \in SlotChoices :
        /\ mw.uncaught = "none"
        /\ mw' = on_exclude_add_clicked(mw, idx, slot)
        /\ RuleFrame

ExcludeEdit ==
    \E idx \in EditIdx, new_idx \in EditIdx, slot \in SlotChoices :
        /\ mw.uncaught = "none"
        /\ HasChip(mw.exclude_slots, idx)
        /\ mw' = on_exclude_edit_clicked(mw, idx, new_idx, slot)
        /\ RuleFrame

ExcludeRemove ==
    \E idx \in EditIdx :
        /\ mw.uncaught = "none"
        /\ HasChip(mw.exclude_slots, idx)
        /\ mw' = on_exclude_remove_clicked(mw, idx)
        /\ RuleFrame

HlAdd ==
    \E idx \in EditIdx, slot \in SlotChoices :
        /\ mw.uncaught = "none"
        /\ mw' = on_hl_add_clicked(mw, idx, slot)
        /\ RuleFrame

HlEdit ==
    \E idx \in EditIdx, new_idx \in EditIdx, slot \in SlotChoices :
        /\ mw.uncaught = "none"
        /\ HasChip(mw.hl_slots, idx)
        /\ mw' = on_hl_edit_clicked(mw, idx, new_idx, slot)
        /\ RuleFrame

HlRemove ==
    \E idx \in EditIdx :
        /\ mw.uncaught = "none"
        /\ HasChip(mw.hl_slots, idx)
        /\ mw' = on_hl_remove_clicked(mw, idx)
        /\ RuleFrame

\* the first start: QSettings holds no slot
RuleInit ==
    /\ mw = InitWindow(Slots(EmptySlot, EmptySlot), Slots(EmptySlot, EmptySlot), FALSE)
    /\ last = NoOp
    /\ heard = <<>>
    /\ clock = 1
    /\ arrivals = 0
    /\ faults = 0
    /\ nconn = 0
    /\ lt = [NewThread EXCEPT !.pc = "none"]
    /\ st = NoCaller
    /\ events = <<>>
    /\ lerrs = 0

RuleNext ==
    \/ FilterAdd
    \/ FilterEdit
    \/ FilterRemove
    \/ ExcludeAdd
    \/ ExcludeEdit
    \/ ExcludeRemove
    \/ HlAdd
    \/ HlEdit
    \/ HlRemove

RuleSpec == RuleInit /\ [][RuleNext]_vars

\* RESET clicks in one behaviour
MaxResets == 2

ResetCount(s) ==
    Cardinality({i \in 1..Len(s.log) :
                    s.log[i] \in {<<"[UI/INFO] Filter RESET">>, <<"[UI/INFO] Exclude RESET">>}})

\* the RESET button of the filter rules
FilterReset ==
    /\ mw.uncaught = "none"
    /\ ResetCount(mw) < MaxResets
    /\ mw' = on_filter_reset_clicked(mw)
    /\ RuleFrame

\* the RESET button of the exclude rules
ExcludeReset ==
    /\ mw.uncaught = "none"
    /\ ResetCount(mw) < MaxResets
    /\ mw' = on_exclude_reset_clicked(mw)
    /\ RuleFrame

EditNext ==
    \/ FilterAdd
    \/ FilterEdit
    \/ FilterRemove
    \/ FilterReset
    \/ ExcludeAdd
    \/ ExcludeEdit
    \/ ExcludeRemove
    \/ ExcludeReset

\* the editing of the filter and exclude rules, from the first start
EditSpec == RuleInit /\ [][EditNext]_vars

(* ------------------------- listener: actions -------------------------- *)

\* datagrams the network may deliver
MaxDatagrams == 2
\* errors of the operating system in one behaviour
MaxErrors == 1
\* calls of stop() in one behaviour
MaxStops == 2
\* length of the datagrams drawn exhaustively
MaxPayloadLen == 3

Bytes == {"a", " ", "\r", "\n"}

RECURSIVE TextsUpTo(_)
TextsUpTo(n) ==
    IF n = 0 THEN {<<>>}
    ELSE LET shorter == TextsUpTo(n - 1)
         IN  shorter \cup {Append(s, b) : s \in {x \in shorter : Len(x) = n - 1}, b \in Bytes}

SamplePayloads ==
    {<<"a", "\r", "\n", " ", "a", "\r", "\n">>, <<" ", "\n">>, <<"a", "\r", "xFF">>}

AllPayloads == TextsUpTo(MaxPayloadLen) \cup SamplePayloads

MayErr(fail) == fail => lerrs < MaxErrors

Err(fail) == lerrs' = IF fail THEN lerrs + 1 ELSE lerrs

\* line 62: the "Binding" status
L_Start ==
    /\ lt.pc = "start"
    /\ events' = Append(events, StatusEvent("Binding UDP"))
    /\ lt' = [lt EXCEPT !.pc = "socket"]
    /\ UNCHANGED <<st, lerrs, cvars>>

\* line 64: socket.socket()
L_Socket ==
    \E fail \in BOOLEAN :
        /\ lt.pc = "socket"
        /\ MayErr(fail)
        /\ lt' = IF fail THEN [lt EXCEPT !.pc = "except", !.exc = "EMFILE"]
                 ELSE [lt EXCEPT !.pc = "publish", !.sock = TRUE, !.open = TRUE]
        /\ Err(fail)
        /\ UNCHANGED <<st, events, cvars>>

\* line 65: self._sock = sock
L_Publish ==
    /\ lt.pc = "publish"
    /\ lt' = [lt EXCEPT !.pc = "bind", !._sock = TRUE]
    /\ UNCHANGED <<st, events, lerrs, cvars>>

\* lines 67-69: setsockopt, bind, setblocking; on a closed socket EBADF
L_Bind ==
    \E fail \in BOOLEAN :
        /\ lt.pc = "bind"
        /\ MayErr(fail)
        /\ fail => lt.open
        /\ lt' = IF ~lt.open
                 THEN [lt EXCEPT !.pc = "except", !.exc = "EBADF", !.bind_failed = TRUE]
                 ELSE IF fail
                 THEN [lt EXCEPT !.pc = "except", !.exc = "EADDRINUSE", !.bind_failed = TRUE]
                 ELSE [lt EXCEPT !.pc = "listening"]
        /\ Err(fail)
        /\ UNCHANGED <<st, events, cvars>>

\* line 71: the "Listening" status
L_Listening ==
    /\ lt.pc = "listening"
    /\ events' = Append(events, StatusEvent("Listening UDP"))
    /\ lt' = [lt EXCEPT !.pc = "loop"]
    /\ UNCHANGED <<st, lerrs, cvars>>

\* line 73
L_Loop ==
    /\ lt.pc = "loop"
    /\ lt' = LoopHead(lt)
    /\ UNCHANGED <<st, events, lerrs, cvars>>

\* line 75: select with its 100 ms timeout.  On a socket closed before the
\* call fileno() is -1 and select raises ValueError; closed during the wait,
\* select raises EBADF, times out or reports the descriptor
L_Select ==
    \E o \in {"timeout", "ready", "EBADF", "ValueError", "ENOMEM"} :
        /\ lt.pc = "select"
        /\ o \in ClosedErrnos => ~lt.open
        /\ o = "ENOMEM" => (lt.open /\ lerrs < MaxErrors)
        /\ (o = "ready" /\ lt.open) => lt.packets < MaxDatagrams
        /\ lt' = IF o = "timeout" THEN [lt EXCEPT !.pc = "loop"]
                 ELSE IF o = "ready" THEN [lt EXCEPT !.pc = "recv"]
                 ELSE [lt EXCEPT !.pc = "select_exc", !.exc = o]
        /\ Err(o = "ENOMEM")
        /\ UNCHANGED <<st, events, cvars>>

\* lines 76-79
L_SelectExc ==
    /\ lt.pc = "select_exc"
    /\ lt' = SelectFailed(lt)
    /\ UNCHANGED <<st, events, lerrs, cvars>>

\* lines 80-81
L_SelectEmit ==
    /\ lt.pc = "select_emit"
    /\ events' = Append(events, ErrorEvent("select failed", lt.exc))
    /\ lt' = [lt EXCEPT !.pc = "finally", !.exc = "none"]
    /\ UNCHANGED <<st, lerrs, cvars>>

\* line 87: recvfrom on the non-blocking socket; `payloads` is what the
\* network may deliver
Recv(payloads) ==
    \E o \in {"data", "EBADF", "EAGAIN", "EINVAL"}, d \in payloads :
        /\ lt.pc = "recv"
        /\ o = "EBADF" <=> ~lt.open
        /\ o = "data" => lt.packets < MaxDatagrams
        /\ o \in {"EAGAIN", "EINVAL"} => lerrs < MaxErrors
        /\ lt' = IF o = "data" THEN [lt EXCEPT !.pc = "process", !.data = d]
                 ELSE [lt EXCEPT !.pc = "recv_exc", !.exc = o]
        /\ Err(o \in {"EAGAIN", "EINVAL"})
        /\ UNCHANGED <<st, events, cvars>>

\* lines 88-91
L_RecvExc ==
    /\ lt.pc = "recv_exc"
    /\ lt' = RecvFailed(lt)
    /\ UNCHANGED <<st, events, lerrs, cvars>>

\* lines 92-93
L_RecvEmit ==
    /\ lt.pc = "recv_emit"
    /\ events' = Append(events, ErrorEvent("recvfrom failed", lt.exc))
    /\ lt' = [lt EXCEPT !.pc = "loop", !.exc = "none"]
    /\ UNCHANGED <<st, lerrs, cvars>>

\* lines 100-113
L_Process ==
    /\ lt.pc = "process"
    /\ lt' = ProcessDatagram(lt, events).lt
    /\ events' = ProcessDatagram(lt, events).events
    /\ UNCHANGED <<st, lerrs, cvars>>

\* lines 115-117
L_Except ==
    /\ lt.pc = "except"
    /\ lt' = RunFailed(lt)
    /\ UNCHANGED <<st, events, lerrs, cvars>>

\* line 118
L_ExceptEmit ==
    /\ lt.pc = "except_emit"
    /\ events' = Append(events, ErrorEvent("UDP listener error", lt.exc))
    /\ lt' = [lt EXCEPT !.pc = "finally", !.exc = "none"]
    /\ UNCHANGED <<st, lerrs, cvars>>

\* lines 120-124: sock.close()
L_Finally ==
    /\ lt.pc = "finally"
    /\ lt' = [lt EXCEPT !.pc = "clear", !.open = FALSE]
    /\ UNCHANGED <<st, events, lerrs, cvars>>

\* line 125: self._sock = None
L_Clear ==
    /\ lt.pc = "clear"
    /\ lt' = [lt EXCEPT !.pc = "stopped", !._sock = FALSE]
    /\ UNCHANGED <<st, events, lerrs, cvars>>

\* line 126: the "stopped" status
L_Stopped ==
    /\ lt.pc = "stopped"
    /\ events' = Append(events, StatusEvent("Listener stopped"))
    /\ lt' = [lt EXCEPT !.pc = "done"]
    /\ UNCHANGED <<st, lerrs, cvars>>

\* stop(), line 39: self._stop_evt.set()
S_Set ==
    /\ st.pc = "idle"
    /\ st.calls < MaxStops
    /\ lt' = [lt EXCEPT !.stop_evt = TRUE]
    /\ st' = [st EXCEPT !.pc = "check", !.at = IF st.at = "none" THEN lt.pc ELSE st.at]
    /\ UNCHANGED <<events, lerrs, cvars>>

\* stop(), line 41: if self._sock is not None
S_Check ==
    /\ st.pc = "check"
    /\ st' = IF lt._sock THEN [st EXCEPT !.pc = "close"]
             ELSE [st EXCEPT !.pc = "idle", !.calls = st.calls + 1]
    /\ UNCHANGED <<lt, events, lerrs, cvars>>

\* stop(), lines 42-45
S_Close ==
    /\ st.pc = "close"
    /\ lt' = StopClose(lt, st).lt
    /\ st' = [StopClose(lt, st).st EXCEPT !.pc = "idle", !.calls = st.calls + 1]
    /\ UNCHANGED <<events, lerrs, cvars>>

\* recvfrom delivering one of the sample datagrams
L_Recv == Recv(SamplePayloads)

\* the first datagram is drawn from every text up to MaxPayloadLen
RxPayloads == IF lt.packets = 0 THEN AllPayloads ELSE SamplePayloads

L_RecvAny == Recv(RxPayloads)

\* a listener that has been created and started, and a caller of stop()
ListenerInit ==
    /\ mw = InitWindow(Slots(EmptySlot, EmptySlot), Slots(EmptySlot, EmptySlot), FALSE)
    /\ last = NoOp
    /\ heard = <<>>
    /\ clock = 1
    /\ arrivals = 0
    /\ faults = 0
    /\ nconn = 0
    /\ lt = NewThread
    /\ st = NoCaller
    /\ events = <<>>
    /\ lerrs = 0

ListenerNext ==
    \/ L_Start
    \/ L_Socket
    \/ L_Publish
    \/ L_Bind
    \/ L_Listening
    \/ L_Loop
    \/ L_Select
    \/ L_SelectExc
    \/ L_SelectEmit
    \/ L_Recv
    \/ L_RecvExc
    \/ L_RecvEmit
    \/ L_Process
    \/ L_Except
    \/ L_ExceptEmit
    \/ L_Finally
    \/ L_Clear
    \/ L_Stopped
    \/ S_Set
    \/ S_Check
    \/ S_Close

ListenerSpec == ListenerInit /\ [][ListenerNext]_vars

\* one datagram text is enough to follow the control flow of run()
OnePayload == {<<"a", "\r", "\n", " ", "a", "\r", "\n">>}

L_RecvOne == Recv(OnePayload)

\* a step of run(), every datagram having the same text
FairRunStep ==
    \/ L_Start
    \/ L_Socket
    \/ L_Publish
    \/ L_Bind
    \/ L_Listening
    \/ L_Loop
    \/ L_Select
    \/ L_SelectExc
    \/ L_SelectEmit
    \/ L_RecvOne
    \/ L_RecvExc
    \/ L_RecvEmit
    \/ L_Process
    \/ L_Except
    \/ L_ExceptEmit
    \/ L_Finally
    \/ L_Clear
    \/ L_Stopped

ListenerFairNext ==
    \/ L_Start
    \/ L_Socket
    \/ L_Publish
    \/ L_Bind
    \/ L_Listening
    \/ L_Loop
    \/ L_Select
    \/ L_SelectExc
    \/ L_SelectEmit
    \/ L_RecvOne
    \/ L_RecvExc
    \/ L_RecvEmit
    \/ L_Process
    \/ L_Except
    \/ L_ExceptEmit
    \/ L_Finally
    \/ L_Clear
    \/ L_Stopped
    \/ S_Set
    \/ S_Check
    \/ S_Close

(* --------------------- the window and its listener -------------------- *)

\* UdpListenerThread.stop called from _stop_listener, as one step
stop(l) ==
    LET flagged == [l EXCEPT !.stop_evt = TRUE]
    IN  IF flagged._sock THEN StopClose(flagged, NoCaller).lt ELSE flagged

\* connect: the thread is created and started.  lt is the thread of the
\* first connection; the thread of a later connection has not been
\* scheduled yet
LinkConnect ==
    /\ ConnectWith({DefaultBind}, {DefaultPort}, MaxSessions)
    /\ lt' = IF nconn = 0 THEN NewThread ELSE lt
    /\ UNCHANGED <<st, events, lerrs>>

\* disconnect: _stop_listener stops the thread it holds and waits at most
\* 800 ms for it
LinkDisconnect ==
    \E clicked \in {"save", "no", "cancel"} :
        /\ DisconnectClicked(clicked)
        /\ lt' = IF clicked # "cancel" /\ mw.listener = 1 THEN stop(lt) ELSE lt
        /\ UNCHANGED <<st, events, lerrs>>

\* the event loop of the window hands the oldest queued event of the
\* listener to the slot connected to its signal; here `events` holds the
\* events emitted and not yet handled
Deliver ==
    \E fail \in BOOLEAN :
        LET ev == Head(events)
        IN  /\ events # <<>>
            /\ MayFail(fail, mw.live_log_handle
                             /\ \/ ev.type = "error"
                                \/ ev.type = "line" /\ mw.listener # 0 /\ Accepted(mw, ev.text))
            /\ mw' = CASE ev.type = "line" -> _on_line_received(mw, ev.text, now, fail)
                       [] ev.type = "stats" -> _on_rx_stats(mw, ev.packets, ev.lines)
                       [] ev.type = "error" -> _on_listener_error(mw, ev.text, now, fail)
                       [] OTHER -> _on_listener_status(mw, ev.text)
            /\ last' = [NoOp EXCEPT !.op = ev.type, !.line = ev.text]
            /\ IF ev.type = "line" THEN Hear(ev.text) ELSE HearNothing
            /\ arrivals' = IF ev.type = "line" THEN arrivals + 1 ELSE arrivals
            /\ Fault(fail)
            /\ events' = Tail(events)
            /\ UNCHANGED <<lt, st, lerrs, clock, nconn>>

LinkNext ==
    \/ LinkConnect
    \/ LinkDisconnect
    \/ Deliver
    \/ L_Start
    \/ L_Socket
    \/ L_Publish
    \/ L_Bind
    \/ L_Listening
    \/ L_Loop
    \/ L_Select
    \/ L_SelectExc
    \/ L_SelectEmit
    \/ L_RecvOne
    \/ L_RecvExc
    \/ L_RecvEmit
    \/ L_Process
    \/ L_Except
    \/ L_ExceptEmit
    \/ L_Finally
    \/ L_Clear
    \/ L_Stopped

\* the window with the listener of its first connection, started as
\* ClearSpec is
LinkSpec == ClearInit /\ [][LinkNext]_vars

\* connect statement by statement: the thread is started
C_Start ==
    /\ LoopIdle(mw)
    /\ mw.listener = 0
    /\ nconn < MaxConnects
    /\ mw' = StartThread(mw, DefaultBind, DefaultPort, nconn + 1)
    /\ last' = [NoOp EXCEPT !.op = "connect_start"]
    /\ HearNothing
    /\ nconn' = nconn + 1
    /\ lt' = IF nconn = 0 THEN NewThread ELSE lt
    /\ UNCHANGED <<st, events, lerrs, clock, arrivals, faults>>

\* then the session file is opened and the handler returns
C_Open ==
    \E fail \in BOOLEAN :
        /\ mw.pc = "started"
        /\ MayFail(fail, TRUE)
        /\ mw' = OpenSession(mw, now, fail)
        /\ last' = [NoOp EXCEPT !.op = "connect"]
        /\ HearNothing
        /\ Fault(fail)
        /\ UNCHANGED <<lt, st, events, lerrs, clock, arrivals, nconn>>

StartDeliver == LoopIdle(mw) /\ Deliver

StartDisconnect == LoopIdle(mw) /\ LinkDisconnect

StartNext ==
    \/ C_Start
    \/ C_Open
    \/ StartDeliver
    \/ StartDisconnect
    \/ L_Start
    \/ L_Socket
    \/ L_Publish
    \/ L_Bind
    \/ L_Listening
    \/ L_Loop
    \/ L_Select
    \/ L_SelectExc
    \/ L_SelectEmit
    \/ L_RecvOne
    \/ L_RecvExc
    \/ L_RecvEmit
    \/ L_Process
    \/ L_Except
    \/ L_ExceptEmit
    \/ L_Finally
    \/ L_Clear
    \/ L_Stopped

\* the window connecting while the listener it has started runs
StartSpec == ClearInit /\ [][StartNext]_vars

\* run() can take a step at every position but its end
RunEnabled == lt.pc # "done"

RunEnabledIsEnabled == RunEnabled <=> ENABLED <<FairRunStep>>_vars

\* the thread runs whenever it can: select times out, recvfrom does not block.
\* This is WF_vars(FairRunStep) with ENABLED <<FairRunStep>>_vars written as
\* the state predicate RunEnabled
ListenerFairSpec ==
    /\ ListenerInit
    /\ [][ListenerFairNext]_vars
    /\ ([]<>(~RunEnabled) \/ []<><<FairRunStep>>_vars)

\* the receive path alone: nobody calls stop()
RxNext ==
    \/ L_Start
    \/ L_Socket
    \/ L_Publish
    \/ L_Bind
    \/ L_Listening
    \/ L_Loop
    \/ L_Select
    \/ L_SelectExc
    \/ L_SelectEmit
    \/ L_RecvAny
    \/ L_RecvExc
    \/ L_RecvEmit
    \/ L_Process
    \/ L_Except
    \/ L_ExceptEmit
    \/ L_Finally
    \/ L_Clear
    \/ L_Stopped

RxSpec == ListenerInit /\ [][RxNext]_vars

(* ------------------------ rule engine properties ---------------------- *)

\* a slot takes part in matching
Active(slot) == Strip(slot.pattern) # <<>>

\* a Literal matcher succeeds if contained in the line, a Regex matcher if
\* it finds a match anywhere in the line
MatcherMatches(m, line) == Contains(line, m.pat)

\* matchAll of the specification: AND over the matchers; an empty matcher
\* list matches nothing
MatchAllSpec(line, matchers) ==
    /\ matchers # <<>>
    /\ \A i \in 1..Len(matchers) : MatcherMatches(matchers[i], line)

Matchers(slot) == compile_patterns(slot.pattern, slot.mode)

ActiveIdx(slots) == {i \in 1..Len(slots) : Active(slots[i])}

\* C11: matchIncludeSlots(line) is true iff no filter slot is active or, for
\* every active filter slot, every matcher (token) of that slot matches the
\* line: filter slots are ANDed and the tokens of a slot are ANDed.
C11_IncludeIff ==
    mw.uncaught = "none" =>
        \A line \in RuleLines :
            _match_include_slots(mw, line) <=>
                \/ ActiveIdx(mw.filter_slots) = {}
                \/ \A i \in ActiveIdx(mw.filter_slots) :
                        \A k \in 1..Len(Matchers(mw.filter_slots[i])) :
                            MatcherMatches(Matchers(mw.filter_slots[i])[k], line)

\* two active filter slots, requiring "A" and "B": only the line with both
\* passes
C11_Witness ==
    /\ mw.uncaught = "none"
    /\ ActiveIdx(mw.filter_slots) = {1, 2}
    /\ mw.filter_slots[1].pattern = <<"A">>
    /\ mw.filter_slots[2].pattern = <<"B">>
    /\ _match_include_slots(mw, <<"A", "B">>)
    /\ ~_match_include_slots(mw, <<"A">>)
    /\ ~_match_include_slots(mw, <<"B">>)

\* C12: matchExcludeSlots(line) is true iff at least one active exclude slot
\* has all of its matchers matching the line (matchAll), and false when no
\* exclude slot is active; a line for which it is true is dropped, a line for
\* which it is false is not dropped by the exclude step.
C12_ExcludeIff ==
    mw.uncaught = "none" =>
        \A line \in RuleLines :
            /\ _match_exclude_slots(mw, line) <=>
                    \E i \in ActiveIdx(mw.exclude_slots) :
                        MatchAllSpec(line, Matchers(mw.exclude_slots[i]))
            /\ ActiveIdx(mw.exclude_slots) = {} => ~_match_exclude_slots(mw, line)
            /\ _match_exclude_slots(mw, line) => _on_line_received(mw, line, now, FALSE) = mw
            /\ (~_match_exclude_slots(mw, line) /\ _match_include_slots(mw, line)) =>
                    _on_line_received(mw, line, now, FALSE).queue = Append(mw.queue, line)

\* two active exclude slots, for "A" and for "B": a line with either is
\* excluded, a line with neither is not
C12_Witness ==
    /\ mw.uncaught = "none"
    /\ ActiveIdx(mw.exclude_slots) = {1, 2}
    /\ mw.exclude_slots[1].pattern = <<"A">>
    /\ mw.exclude_slots[2].pattern = <<"B">>
    /\ _match_exclude_slots(mw, <<"A">>)
    /\ _match_exclude_slots(mw, <<"B">>)
    /\ ~_match_exclude_slots(mw, <<"X">>)

\* a highlight slot that can win
HlActive(slot) == Active(slot) /\ Lower(slot.color) # "none"

HlWinners(slots, line) ==
    {i \in 1..Len(slots) : HlActive(slots[i]) /\ MatchAllSpec(line, Matchers(slots[i]))}

\* resolveHighlight of the specification
ResolveHighlight(slots, line) ==
    IF HlWinners(slots, line) = {} THEN "default"
    ELSE LET first == CHOOSE i \in HlWinners(slots, line) :
                          \A j \in HlWinners(slots, line) : i <= j
         IN  Lower(slots[first].color)

\* C13: resolveHighlight(line) is the colour of the lowest-index highlight
\* slot that is active (pattern not empty, colour not "None") and whose
\* tokens all match the line, and none when there is no such slot; a later
\* matching slot never overrides an earlier one, and a slot with an empty
\* pattern or the colour "None" is skipped without blocking later slots.
C13_FirstActiveMatchWins ==
    mw.uncaught = "none" =>
        \A line \in RuleLines :
            highlightBlock(mw.hl_rules, line) = ResolveHighlight(mw.hl_slots, line)

\* slot 1 (Red) and slot 2 (Blue) both match "AB": the colour is red; slot 2
\* alone matches "B": the colour is blue
C13_Witness ==
    /\ mw.uncaught = "none"
    /\ mw.hl_slots[1] = [pattern |-> <<"A">>, mode |-> "Substring", color |-> "Red"]
    /\ mw.hl_slots[2] = [pattern |-> <<"B">>, mode |-> "Regex", color |-> "Blue"]
    /\ highlightBlock(mw.hl_rules, <<"A", "B">>) = "red"
    /\ highlightBlock(mw.hl_rules, <<"B">>) = "blue"
    /\ highlightBlock(mw.hl_rules, <<"X">>) = "default"

\* the active slots whose pattern compiles to no matcher
InertIdx(slots) == {i \in ActiveIdx(slots) : Matchers(slots[i]) = <<>>}

\* C14: a slot whose pattern is not blank but compiles to no matcher matches
\* nothing: as an active filter slot it makes the include check fail for
\* every line, as an exclude or highlight slot it never matches.
C14_InertSlotMatchesNothing ==
    mw.uncaught = "none" =>
        \A line \in RuleLines :
            /\ InertIdx(mw.filter_slots) # {} => ~_match_include_slots(mw, line)
            /\ InertIdx(mw.exclude_slots) = ActiveIdx(mw.exclude_slots) =>
                    ~_match_exclude_slots(mw, line)
            /\ \A i \in InertIdx(mw.hl_slots) :
                    highlightBlock(HighlightRules(<<mw.hl_slots[i]>>), line) = "default"

\* C15: compile(patternText, mode) never fails as a whole: no exception
\* leaves the handler that compiles the rules.
C15_CompilationNeverFails == mw.uncaught = "none"

(* ------------------------- pipeline properties ------------------------ *)

\* a step in which _on_line_received handled last'.line
LineStep == last'.op = "line" /\ arrivals' = arrivals + 1

\* t is s without its first k elements, for some k
IsSuffix(t, s) == \E k \in 0..Len(s) : t = SubSeq(s, k + 1, Len(s))

\* C1: a line that fails the include check or matches the exclude check is
\* dropped with no effect: live file, PauseBuffer, droppedCount, DisplayQueue
\* and every other field of the window stay as they were, paused or not
C1_DroppedLineNoEffect ==
    [][(LineStep /\ ~Accepted(mw, last'.line)) => mw' = mw]_vars

C1_Witness ==
    /\ last.op = "line"
    /\ ~Accepted(mw, last.line)
    /\ mw.ui_paused
    /\ mw.live_log_handle
    /\ mw.pause_buffer # <<>>

\* C2: an accepted line handled while the live session is open is appended to
\* the live file exactly once when the write does not raise, whether the
\* pipeline is paused or not; no line step writes anything else, and pause
\* and resume leave the file as it is
C2_AppendRegardlessOfPause ==
    [][/\ (LineStep /\ Accepted(mw, last'.line) /\ mw.live_log_handle /\ faults' = faults)
            => mw'.file = Append(mw.file, OutLine(mw, last'.line, now))
       /\ (LineStep /\ ~(Accepted(mw, last'.line) /\ mw.live_log_handle /\ faults' = faults))
            => mw'.file = mw.file
       /\ last'.op \in {"pause", "resume"} => mw'.file = mw.file]_vars

C2_Witness ==
    /\ last.op = "line"
    /\ Accepted(mw, last.line)
    /\ mw.ui_paused
    /\ mw.live_log_handle
    /\ Len(mw.pause_buffer) = PauseCap
    /\ Len(mw.file) = 4
    /\ mw.file[Len(mw.file)] = OutLine(mw, last.line, now)

\* C3: while the pipeline is paused the DisplayQueue gains no line, whatever
\* the source of the line (listener, simulation, replay)
C3_PausedNothingQueued ==
    [][(mw.ui_paused /\ mw'.ui_paused) => IsSuffix(mw'.queue, mw.queue)]_vars

\* C4: after N lines accepted while paused, the PauseBuffer holds the most
\* recent min(N, capacity) of them in arrival order and droppedCount is
\* max(0, N - capacity)
C4_PauseBufferKeepsNewest ==
    mw.ui_paused =>
        LET N == Len(heard)
            kept == Min(N, PauseCap)
        IN  /\ mw.pause_buffer = SubSeq(heard, N - kept + 1, N)
            /\ mw.pause_dropped = Max(0, N - PauseCap)

C4_Witness ==
    /\ mw.ui_paused
    /\ Len(heard) > PauseCap
    /\ heard[1] # heard[Len(heard)]
    /\ mw.pause_dropped = Len(heard) - PauseCap
    /\ mw.pause_buffer = Tail(heard)

\* C5: resume enqueues, behind what is already queued, one marker stating
\* droppedCount when droppedCount > 0 and none when it is 0, then the
\* buffered lines in arrival order; the forced flush then moves the head of
\* the queue to the display; the PauseBuffer ends empty and droppedCount 0
C5_ResumeOrder ==
    [][last'.op = "resume" =>
        LET marker == IF mw.pause_dropped > 0
                      THEN <<ResumeMarker(mw.pause_dropped)>> ELSE <<>>
            enq == mw.queue \o marker \o mw.pause_buffer
            n == Min(FlushBatch, Len(enq))
        IN  /\ mw'.queue = SubSeq(enq, n + 1, Len(enq))
            /\ IsSuffix(mw'.log, mw.log \o SubSeq(enq, 1, n))
            /\ mw'.pause_buffer = <<>>
            /\ mw'.pause_dropped = 0
            /\ ~mw'.ui_paused]_vars

C5_Witness ==
    /\ last.op = "resume"
    /\ mw.queue # <<>>
    /\ \E i \in 1..Len(mw.log) :
        /\ mw.log[i] = ResumeMarker(1)
        /\ i < Len(mw.log)

(* ------------------------ live session properties -------------------- *)

\* the line the window shows for a failed write
WriteFailedLine == <<"[UI/ERROR] Live logfile write failed">>

\* a line step whose write to the live file raised
FailedWriteStep == LineStep /\ faults' = faults + 1

\* the line of the step goes through the pause check
ThroughPauseCheck ==
    LET out_line == OutLine(mw, last'.line, now)
    IN  IF mw.ui_paused
        THEN /\ mw'.pause_buffer = DequeAppend(mw.pause_buffer, out_line, PauseCap)
             /\ mw'.queue = mw.queue
        ELSE /\ mw'.queue = Append(mw.queue, out_line)
             /\ mw'.pause_buffer = mw.pause_buffer

\* C21: when appending to the live file fails the session is closed at once,
\* exactly one error line is shown, no later line is written to the failed
\* handle until a new connection opens a new session, and the line whose
\* write failed and every later accepted line still go through the pause
\* check into the PauseBuffer or the DisplayQueue.
C21_WriteFailureClosesSession ==
    [][/\ FailedWriteStep =>
            /\ ~mw'.live_log_handle
            /\ mw'.live_log_path = 0
            /\ mw'.log = Append(mw.log, WriteFailedLine)
            /\ mw'.file = mw.file
            /\ ThroughPauseCheck
       /\ (LineStep /\ ~mw.live_log_handle) =>
            /\ ~mw'.live_log_handle
            /\ mw'.file = mw.file
            /\ mw'.log = mw.log
            /\ Accepted(mw, last'.line) => ThroughPauseCheck
       /\ (~mw.live_log_handle /\ mw'.live_log_handle) => last'.op = "connect"]_vars

\* a write failed, and a later accepted line was queued behind the failed one
C21_Witness ==
    /\ last.op = "line"
    /\ Accepted(mw, last.line)
    /\ mw.listener # 0
    /\ ~mw.live_log_handle
    /\ faults = 1
    /\ \E i \in 1..Len(mw.log) : mw.log[i] = WriteFailedLine
    /\ Len(mw.queue) >= 2
    /\ mw.file = <<<<"# UDP Log Viewer live session">>>>

\* an [UI/ERROR] line of the window
ErrorLines == {WriteFailedLine, <<"[UI/ERROR] Could not create live logfile">>}

\* C22: no failure silently ends the live session: whenever the session is
\* closed by an I/O failure (a failed write of a line, a failed flush of the
\* handle in a display flush) while the connection stays active, the window
\* shows an error line for it.
C22_SessionLossReported ==
    [][(mw.listener # 0 /\ mw'.listener # 0 /\ mw.live_log_handle /\ ~mw'.live_log_handle) =>
            /\ mw'.log # <<>>
            /\ mw'.log[Len(mw'.log)] \in ErrorLines]_vars

\* C23: close() keeps the path of the session that ended as the last-session
\* path for every sequence of closes: a session already closed by a write
\* failure and closed again by the disconnect still has its path there.
C23_LastSessionPathKept ==
    [][(last'.op = "disconnect" /\ mw.live_log_path = 0 /\ mw.last_session_log_path # 0) =>
            mw'.last_session_log_path = mw.last_session_log_path]_vars

\* C24: save copies the file of the live session (or, with no session open,
\* of the last session) verbatim whenever that file exists, and writes the
\* visible buffer, a trailing newline ensured, only when no session file
\* exists.
C24_SavePrefersSessionFile ==
    [][(last'.op = "save" /\ last'.save.kind \notin {"cancelled", "copy_failed", "save_failed"}) =>
            IF last'.on_disk
            THEN last'.save = [kind |-> "copied", text |-> FileText(mw.file)]
            ELSE last'.save = [kind |-> "written",
                               text |-> SavedContent(toPlainText(mw.log))]]_vars

(* ---------------------- bind parameter properties ------------------- *)

\* a step of on_connect_toggled with the button checked
ConnectStep == last'.op \in {"connect", "connect_rejected"}

\* the typed port is a decimal number within [1, 65535]
ValidPortText(text) ==
    LET tx == Strip(text)
    IN  /\ tx # <<>>
        /\ \A i \in 1..Len(tx) : \E d \in 1..10 : Digits[d] = tx[i]
        /\ 1 <= DecimalValue(tx)
        /\ DecimalValue(tx) <= 65535

\* the IP literals among BindTexts
IpLiterals == {<<"0.0.0.0">>, <<"::1">>}

\* the typed address is an IP literal, or blank and so the default
ValidBindText(text) == Strip(text) = <<>> \/ Strip(text) \in IpLiterals

\* C28: a start request with an empty, non-numeric or out-of-range port is
\* rejected before any socket or listener is created: no listener exists
\* afterwards, no live session is opened, and the stats counters, the pause
\* state and the stored bind parameters (every field of the window) are
\* unchanged.
C28_BadPortRejected ==
    [][(ConnectStep /\ ~ValidPortText(last'.typed[2])) =>
            /\ last'.op = "connect_rejected"
            /\ mw' = mw
            /\ mw'.listener = 0
            /\ nconn' = nconn
            /\ lt' = lt]_vars

\* port 65536 was refused: nothing listens, no session, the stored port kept
C28_Witness ==
    /\ last.op = "connect_rejected"
    /\ last.typed[2] = <<"6", "5", "5", "3", "6">>
    /\ mw.listener = 0
    /\ mw.live_log_path = 0
    /\ mw.port = 10514

\* C29: a start request whose bind address is no IP literal is rejected
\* before socket creation: no listener is created and no live session is
\* opened for it.
C29_BadAddressRejected ==
    [][(ConnectStep /\ ~ValidBindText(last'.typed[1])) =>
            /\ mw'.listener = 0
            /\ mw'.live_log_path = 0
            /\ nconn' = nconn]_vars

(* ----------------------- display queue properties -------------------- *)

\* a step of the flush timer
FlushStep == last'.op = "flush"

\* the batch a flush takes from the queue of s
Batch(s) == SubSeq(s.queue, 1, Min(FlushBatch, Len(s.queue)))

\* the lines visible after the batch is appended, before the trim
Visible(s) == s.log \o Batch(s)

\* the retention cap in force
maxLines(s) == Max(MinMaxLines, IF s.max_lines # 0 THEN s.max_lines ELSE DEFAULT_MAX_LINES)

\* C16: a flush tick removes the first min(batch size, queue length) lines
\* from the DisplayQueue and forwards them to the sink in FIFO order, the
\* remaining lines stay queued in unchanged order; with an empty queue the
\* tick changes nothing.
C16_FlushDrainsFifo ==
    [][FlushStep =>
        /\ mw'.queue = SubSeq(mw.queue, Len(Batch(mw)) + 1, Len(mw.queue))
        /\ Len(Batch(mw)) = Min(FlushBatch, Len(mw.queue))
        /\ \E k \in 0..Len(Visible(mw)) :
                mw'.log = SubSeq(Visible(mw), k + 1, Len(Visible(mw)))
        /\ mw.queue = <<>> => mw' = mw]_vars

\* a flush took a full batch and left a line queued
C16_Witness ==
    /\ last.op = "flush"
    /\ mw.queue # <<>>
    /\ Len(mw.log) >= FlushBatch

\* C17: after a non-empty flush the retention trim runs once: if the visible
\* line count exceeds maxLines, exactly min(trimChunk, visible - maxLines) of
\* the oldest lines are removed and trimmedTotal grows by that amount;
\* otherwise nothing is removed and trimmedTotal is unchanged.
C17_TrimAfterFlush ==
    [][(FlushStep /\ mw.queue # <<>>) =>
        LET visible == Len(Visible(mw))
            n == IF visible > maxLines(mw)
                 THEN Min(TrimChunk, visible - maxLines(mw)) ELSE 0
        IN  /\ mw'.log = SubSeq(Visible(mw), n + 1, visible)
            /\ mw'.trimmed_lines_total = mw.trimmed_lines_total + n]_vars

\* one flush trimmed a whole chunk
C17_Witness ==
    /\ last.op = "flush"
    /\ mw.trimmed_lines_total = TrimChunk
    /\ Len(mw.log) = maxLines(mw)
    /\ mw.queue = <<>>

\* C18 as stated: when the visible buffer reaches maxLines + 1 lines the trim
\* removes a whole trim chunk of oldest lines and trimmedTotal grows by the
\* chunk.
C18_TrimsWholeChunk ==
    [][(FlushStep /\ mw.queue # <<>> /\ Len(Visible(mw)) = maxLines(mw) + 1) =>
        /\ mw'.log = SubSeq(Visible(mw), TrimChunk + 1, Len(Visible(mw)))
        /\ mw'.trimmed_lines_total = mw.trimmed_lines_total + TrimChunk]_vars

\* C18: when the visible buffer reaches maxLines + 1 lines the trim removes
\* the one oldest line, not a whole trim chunk, and trimmedTotal grows by 1.
C18_TrimsTheExcess ==
    [][(FlushStep /\ mw.queue # <<>> /\ Len(Visible(mw)) = maxLines(mw) + 1) =>
        /\ mw'.log = Tail(Visible(mw))
        /\ mw'.trimmed_lines_total = mw.trimmed_lines_total + 1]_vars

\* a first trim, of one line, left the buffer at the cap
C18_Witness ==
    /\ last.op = "flush"
    /\ mw.trimmed_lines_total = 1
    /\ Len(mw.log) = maxLines(mw)

\* C19: the DisplayQueue is a bounded FIFO: the number of lines it holds
\* stays below a fixed bound, here below the number of lines that arrive, so
\* that input arriving faster than it is flushed cannot all be queued.
C19_QueueBounded == Len(mw.queue) < MaxArrivals

\* C20: trimmedTotal only increases: no line arrival, flush, pause, resume,
\* connect or disconnect decreases it; only the UI-only clear may reset it.
C20_TrimmedTotalMonotone ==
    [][mw'.trimmed_lines_total >= mw.trimmed_lines_total \/ last'.op = "clear"]_vars

\* lines were trimmed, and a resume or a disconnect followed
C20_Witness ==
    /\ mw.trimmed_lines_total > 0
    /\ last.op \in {"resume", "disconnect"}

(* ------------------------- listener properties ------------------------ *)

Stopped == StatusEvent("Listener stopped")

Listening == StatusEvent("Listening UDP")

Binding == StatusEvent("Binding UDP")

Positions(type) == {i \in 1..Len(events) : events[i].type = type}

PositionsOf(e) == {i \in 1..Len(events) : events[i] = e}

EmitPcs == {"select_emit", "recv_emit", "except_emit"}

HandlerPcs == {"select_exc", "recv_exc", "except"}

\* the final "stopped" status: it is emitted exactly once, by the time run()
\* returns, and nothing is emitted after it
StoppedIsFinal ==
    /\ lt.pc = "done" <=> PositionsOf(Stopped) # {}
    /\ PositionsOf(Stopped) \subseteq {Len(events)}

\* C6 as stated: once the stop flag is set the listener emits no error
\* event (and the last event is exactly one "stopped" status).
C6_NoErrorOnceFlagSet ==
    [][lt.stop_evt => (Len(events') > Len(events) => events'[Len(events')].type # "error")]_vars

\* C6: for every interleaving of stop() with run(), no error event is a
\* consequence of the socket closure induced by stop(): no error event
\* reports the error of a closed socket, a failure handled once the stop flag
\* is set is never reported (an error event emitted after the flag is set
\* reports a failure whose handler read the flag before it was set), and the
\* last event emitted is exactly one "stopped" status.
C6_NoErrorFromClosure ==
    [][/\ \A i \in Positions("error")' : events'[i].text[2] \notin ClosedErrnos
       /\ (lt.stop_evt /\ lt.pc \in HandlerPcs) => lt'.pc \notin EmitPcs
       /\ StoppedIsFinal']_vars

\* stop() closed the socket while run() was in select; run() has returned
\* without any error event
C6_Witness ==
    /\ lt.pc = "done"
    /\ st.at = "select"
    /\ ~st.caught
    /\ st.calls > 0
    /\ lerrs = 0
    /\ Positions("error") = {}
    /\ events[Len(events)] = Stopped
    /\ Listening \in {events[i] : i \in 1..Len(events)}

\* C7: after stop() is invoked the receive loop eventually exits and the
\* final "stopped" status is emitted, wherever run() was when stop() was
\* invoked.
C7_StopLeadsToStopped ==
    lt.stop_evt ~> (lt.pc = "done" /\ events # <<>> /\ events[Len(events)] = Stopped)

\* stop() was invoked before run() had created the socket, so it found no
\* socket to close; run() has returned
C7_Witness ==
    /\ lt.pc = "done"
    /\ st.at = "socket"
    /\ st.calls = 1
    /\ lt.sock
    /\ ~lt.bind_failed
    /\ events[Len(events)] = Stopped

\* a step of a call of stop() that is not the first
LaterStopStep == st.calls >= 1 /\ st' # st

\* C8 as stated: a second call of stop() changes no state and causes no
\* event, and never raises.
C8_SecondStopChangesNothing ==
    [][LaterStopStep => (lt' = lt /\ events' = events /\ ~st'.raised)]_vars

\* C8: a second call of stop() causes no event, never raises (also when
\* run() clears the socket reference between the test and the close) and
\* changes no state, except that it closes the socket if the socket is still
\* open, which is the case only if the first call ran before run() had
\* stored the socket.
C8_SecondStopIdempotent ==
    [][/\ ~st'.raised
       /\ LaterStopStep =>
            /\ events' = events
            /\ lt' = lt \/ (lt.open /\ st.at \in {"start", "socket", "publish"}
                                    /\ lt' = [lt EXCEPT !.open = FALSE])]_vars

\* the second call of stop() found the socket reference set and run()
\* cleared it before the close
C8_Witness ==
    /\ st.calls = 2
    /\ st.caught
    /\ ~st.raised
    /\ lt.stop_evt
    /\ ~lt._sock

Terminators == {"\r", "\n"}

\* the segments of a text between line terminators, a CR LF pair, a CR or
\* an LF, scanned one character at a time: `done` the segments completed,
\* `cur` the segment being read
RECURSIVE Segments(_, _, _)
Segments(text, done, cur) ==
    IF text = <<>> THEN Append(done, cur)
    ELSE IF Head(text) \in Terminators
         THEN Segments(Tail(text), Append(done, cur), <<>>)
         ELSE Segments(Tail(text), done, Append(cur, Head(text)))

IsBlank(seg) == \A i \in 1..Len(seg) : seg[i] \in Whitespace

ExpectedLines(text) == SelectSeq(Segments(text, <<>>, <<>>), LAMBDA seg : ~IsBlank(seg))

\* C10: for every received datagram the payload is normalised (CRLF and CR
\* become LF), split on LF and blank segments are discarded; one line event
\* per remaining segment is emitted in payload order, packets grows by 1 and
\* lines by the number of line events, and exactly one stats event with the
\* updated counters follows the line events, also when there are none.
C10_DatagramToEvents ==
    [][lt.pc = "process" =>
            LET expected == ExpectedLines(Decode(lt.data))
            IN  /\ lt'.packets = lt.packets + 1
                /\ lt'.lines = lt.lines + Len(expected)
                /\ events' = events \o LineEvents(expected)
                                    \o <<StatsEvent(lt.packets + 1, lt.lines + Len(expected))>>]_vars

\* the datagram "a CR LF SPACE a CR LF" gave two line events and one stats
\* event; an earlier datagram gave no line
C10_Witness ==
    /\ lt.pc = "loop"
    /\ lt.packets = 2
    /\ lt.lines = 2
    /\ Len(events) = 6
    /\ events[3] = StatsEvent(1, 0)
    /\ events[4] = LineEvent(<<"a">>)
    /\ events[5] = LineEvent(<<" ", "a">>)
    /\ events[6] = StatsEvent(2, 2)


\* the receive errors after which a later receive can succeed
TransientErrnos == {"EAGAIN"}

\* the listener thread moves on from position p
Leaves(p) == lt.pc = p /\ lt'.pc # p

\* C26: a transient receive error met while no shutdown is in progress is
\* surfaced as exactly one error event and does not stop the receive loop:
\* the listener goes back to the head of the loop and, the stop flag still
\* unset, waits for the next datagram.
C26_TransientErrorReportedLoopGoesOn ==
    [][/\ (Leaves("recv_exc") /\ lt.exc \in TransientErrnos /\ ~lt.stop_evt) =>
            /\ lt'.pc = "recv_emit"
            /\ events' = events
       /\ Leaves("recv_emit") =>
            /\ events' = Append(events, ErrorEvent("recvfrom failed", lt.exc))
            /\ lt'.pc = "loop"
       /\ (Leaves("loop") /\ ~lt.stop_evt) => lt'.pc = "select"]_vars

\* after the error event of a failed receive a later datagram was received
\* and its line emitted, the listener still listening
C26_Witness ==
    /\ ~lt.stop_evt
    /\ lt.pc = "loop"
    /\ \E i \in 1..Len(events), j \in 1..Len(events) :
            /\ i < j
            /\ events[i] = ErrorEvent("recvfrom failed", "EAGAIN")
            /\ events[j].type = "line"

\* C27: no receive or bind error is swallowed when stop() has not been
\* called: the handler of a failed receive, wait or bind that finds the stop
\* flag unset reports the error.
C27_NoErrorSwallowedWithoutStop ==
    [][/\ (Leaves("recv_exc") /\ ~lt.stop_evt) => lt'.pc = "recv_emit"
       /\ (Leaves("select_exc") /\ ~lt.stop_evt) => lt'.pc = "select_emit"
       /\ (Leaves("except") /\ ~lt.stop_evt) => lt'.pc = "except_emit"]_vars

\* C25: the listener and the live session of a connection are destroyed on
\* a fatal error as on stop: there is no state in which the window still
\* holds a listener (and an open session) whose receive loop has ended, once
\* it has handled every event of that listener.
C25_FatalErrorEndsConnection ==
    (nconn = 1 /\ lt.pc = "done" /\ events = <<>>) =>
        (mw.listener = 0 /\ ~mw.live_log_handle)

\* C30: the (packets, lines) counters of the window are reset when a
\* connection starts, and no stats event sets them to a value of an earlier
\* connection afterwards: while the listener of the second connection has
\* not received anything they are zero.
C30_NoStatsOfEarlierConnection ==
    mw.listener = 2 => (mw.rx_packets = 0 /\ mw.rx_lines = 0)

(* -------------------------- session properties ------------------------ *)

StoppedLine == <<"[UI/INFO] Listener stopped">>

Range(f) == {f[i] : i \in 1..Len(f)}

\* C31: the PauseBuffer is empty and droppedCount is 0 when a connection
\* has started, after resume and after disconnect; a disconnect (also while
\* paused) enqueues nothing, neither the buffered lines nor a marker, shows
\* only its own status line and leaves the pipeline unpaused.
C31_PauseBufferClearedAtSessionEdges ==
    [][/\ last'.op \in {"connect", "resume", "disconnect"} =>
            /\ mw'.pause_buffer = <<>>
            /\ mw'.pause_dropped = 0
            /\ ~mw'.ui_paused
       /\ last'.op = "disconnect" =>
            /\ mw'.queue = mw.queue
            /\ mw'.log = Append(mw.log, StoppedLine)]_vars

\* a disconnect has discarded a line buffered during the pause: the line is
\* in the live file and neither shown nor queued, and nothing was trimmed
C31_Witness ==
    /\ last.op = "disconnect"
    /\ nconn = 1
    /\ mw.trimmed_lines_total = 0
    /\ \E i \in 2..Len(mw.file) : mw.file[i] \notin Range(mw.log \o mw.queue)

\* what resume puts in the DisplayQueue, behind what is already there
Resumed(s) ==
    s.queue \o (IF s.pause_dropped > 0 THEN <<ResumeMarker(s.pause_dropped)>> ELSE <<>>)
            \o s.pause_buffer

\* lines removed from the display by the step
Trimmed == mw'.trimmed_lines_total - mw.trimmed_lines_total

\* C32: resume flushes before it returns: in the resume step itself the
\* first batch of the queue (what was queued, the marker, the buffered
\* lines) reaches the display, at most FlushBatch lines as on a tick and at
\* least one when anything is queued, and what does not fit in the batch
\* stays in the queue, in order.
C32_ResumeFlushesOneBatch ==
    [][last'.op = "resume" =>
        LET enq == Resumed(mw)
            n == Len(enq) - Len(mw'.queue)
        IN  /\ n = Min(FlushBatch, Len(enq))
            /\ mw'.queue = SubSeq(enq, n + 1, Len(enq))
            /\ Len(mw'.log) = Len(mw.log) + n - Trimmed
            /\ \A i \in 1..Min(n, Len(mw'.log)) :
                 mw'.log[Len(mw'.log) - i + 1] = enq[n - i + 1]]_vars

\* a resume with more than one batch queued and no marker: a buffered line
\* is still queued behind the batch that was shown
C32_Witness ==
    /\ last.op = "resume"
    /\ Len(mw.log) >= FlushBatch
    /\ Len(mw.queue) = 1
    /\ mw.queue[1] \notin {ResumeMarker(d) : d \in 1..MaxArrivals}
    /\ \A i \in 1..Len(mw.log) : mw.log[i] \notin {ResumeMarker(d) : d \in 1..MaxArrivals}

\* the symbols that begin the text of a line the window itself writes
UiSymbols ==
    {"[UI/INFO] Listening", "[UI/INFO] Live logfile", "[UI/INFO] Listener stopped",
     "[UI/INFO] Resume: ", "[UI/ERROR] ", "[UI/ERROR] Live logfile write failed",
     "[UI/ERROR] Could not create live logfile"}

IsUi(line) == \E i \in 1..Len(line) : line[i] \in UiSymbols

\* the lines of `seq` that came through the pipeline
Data(seq) == SelectSeq(seq, LAMBDA line : ~IsUi(line))

RECURSIVE IsSubseq(_, _)
IsSubseq(a, b) ==
    IF a = <<>> THEN TRUE
    ELSE IF b = <<>> THEN FALSE
    ELSE IF Head(a) = Head(b) THEN IsSubseq(Tail(a), Tail(b))
    ELSE IsSubseq(a, Tail(b))

\* the accepted lines of the connection in arrival order: the live file
\* behind its header, while the session is open
ArrivedLines == Tail(mw.file)

\* the lines at the sink, then those on their way to it
OnTheWay == Data(mw.log) \o Data(mw.queue) \o mw.pause_buffer

\* a resume marker is displayed or queued
MarkerShown ==
    \E i \in 1..Len(mw.log \o mw.queue) :
        \E j \in 1..Len((mw.log \o mw.queue)[i]) :
            (mw.log \o mw.queue)[i][j] = "[UI/INFO] Resume: "

\* C33: within a connection the lines at the sink, followed by those
\* queued and those buffered, are in arrival order a subsequence of the
\* accepted lines (none twice, none out of order); while nothing was dropped
\* by the PauseBuffer or trimmed from the display none is missing.  The
\* connection is the first one, which starts with nothing displayed or
\* queued, so that every line on the way is one of its own.
C33_SinkInArrivalOrder ==
    (nconn = 1 /\ mw.listener # 0 /\ mw.live_log_handle) =>
        /\ IsSubseq(OnTheWay, ArrivedLines)
        /\ (mw.pause_dropped = 0 /\ mw.trimmed_lines_total = 0 /\ ~MarkerShown)
             => OnTheWay = ArrivedLines

\* three lines arrived during a pause, the oldest was dropped; after resume
\* the marker and one line are shown and the newest line is still queued
C33_Witness ==
    /\ nconn = 1
    /\ mw.listener # 0
    /\ mw.live_log_handle
    /\ MarkerShown
    /\ Len(ArrivedLines) = 3
    /\ Len(Data(mw.log)) = 1
    /\ Len(Data(mw.queue)) = 1
    /\ ArrivedLines[2] # ArrivedLines[3]

\* the state in which the flush in progress was entered
FlushEntry(s) == [s EXCEPT !.queue = s.batch \o s.queue, !.batch = <<>>, !.pc = "idle"]

\* C34: a flush runs to completion before anything else runs on the loop:
\* it is entered (by the tick or by resume) only when no flush is in
\* progress, it drains at most one batch, and while it is in progress the
\* only steps are its own (the batch is shown, then the display trimmed):
\* no line event, no pause or resume, no connect or disconnect and no
\* second flush come between; its steps together do what one undivided
\* _flush_log_queue does.
C34_FlushRunsToCompletion ==
    [][/\ mw'.pc = "drained" =>
            /\ mw.pc = "idle"
            /\ last'.op \in {"tick", "resume"}
            /\ mw'.batch # <<>>
            /\ Len(mw'.batch) <= FlushBatch
            /\ \A fail \in BOOLEAN :
                  FlushTrim(FlushShow(mw', fail)) = _flush_log_queue(FlushEntry(mw'), fail)
       /\ mw.pc = "drained" =>
            /\ last'.op = "flush_show"
            /\ mw'.pc = "shown"
            /\ mw'.log = mw.log \o mw.batch
       /\ mw.pc = "shown" =>
            /\ last'.op = "flush_trim"
            /\ mw'.pc = "idle"
       /\ mw.pc # "idle" =>
            /\ mw'.queue = mw.queue
            /\ mw'.pause_buffer = mw.pause_buffer
            /\ mw'.ui_paused = mw.ui_paused
            /\ mw'.listener = mw.listener
            /\ arrivals' = arrivals]_vars

\* a flush forced by resume has shown its batch, with a line still queued
C34_Witness ==
    /\ mw.pc = "shown"
    /\ mw.queue # <<>>
    /\ MarkerShown

\* C35: in every state (a) droppedCount > 0 only with a full PauseBuffer,
\* (b) the PauseBuffer holds a line or droppedCount > 0 only while paused,
\* (c) paused only while a listener is held, (d) the PauseBuffer holds at
\* most its capacity.
C35_PauseStateInvariant ==
    /\ mw.pause_dropped > 0 => Len(mw.pause_buffer) = PauseCap
    /\ (mw.pause_buffer # <<>> \/ mw.pause_dropped > 0) => mw.ui_paused
    /\ mw.ui_paused => mw.listener # 0
    /\ Len(mw.pause_buffer) <= PauseCap

\* the second connection is paused and its PauseBuffer has overflowed
C35_Witness ==
    /\ nconn = 2
    /\ mw.ui_paused
    /\ mw.pause_dropped > 0
    /\ Len(mw.pause_buffer) = PauseCap

\* C36: no line emitted by a stopped listener is applied to a later
\* connection: while the listener of the second connection has received
\* nothing, the live file of that connection holds its header only and
\* nothing has been put in its PauseBuffer.
C36_NoLineOfStoppedListener ==
    mw.listener = 2 =>
        /\ mw.live_log_handle => Data(Tail(mw.file)) = <<>>
        /\ mw.pause_buffer = <<>>

Header == <<"# UDP Log Viewer live session">>

\* C37: between the start of the listener thread and the opening of the
\* session file the window handles no event: the next thing it does is to
\* open the file, whose only line is then the header; and a line of the
\* connection that is accepted while the session is open is appended
\* behind the header, however early the listener emitted it.
C37_SessionOpenBeforeFirstLine ==
    [][/\ (mw.pc = "started" /\ (mw' # mw \/ last' # last)) =>
            /\ last.op = "connect_start"
            /\ last'.op = "connect"
            /\ mw'.pc = "idle"
            /\ mw'.live_log_handle => mw'.file = <<Header>>
       /\ (last'.op = "line" /\ arrivals' = arrivals + 1
             /\ mw.listener # 0 /\ Accepted(mw, last'.line)) =>
            /\ mw.pc = "idle"
            /\ (mw.live_log_handle /\ faults' = faults) =>
                  /\ mw.file[1] = Header
                  /\ mw'.file = Append(mw.file, OutLine(mw, last'.line, now))]_vars

\* the session has just been opened and the listener, started before that,
\* has already emitted a line that waits for the window
C37_Witness ==
    /\ last.op = "connect"
    /\ mw.live_log_handle
    /\ mw.file = <<Header>>
    /\ \E i \in 1..Len(events) : events[i].type = "line"

Last(seq) == seq[Len(seq)]

\* `text` is `line` behind a timestamp prefix and a blank
Stamped(text, line) ==
    /\ Len(text) > Len(line) + 1
    /\ text[1] = "D"
    /\ SubSeq(text, Len(text) - Len(line), Len(text)) = <<" ">> \o line

\* C38: for an accepted line the text appended to the live file is the
\* text put in the PauseBuffer (paused) or the DisplayQueue (not paused);
\* it is the line behind the prefix of the moment of arrival when
\* timestamping is enabled and the bare line when it is not.
C38_SameTextInFileAndDisplay ==
    [][(LineStep /\ Accepted(mw, last'.line)) =>
         LET placed == IF mw.ui_paused THEN Last(mw'.pause_buffer) ELSE Last(mw'.queue)
         IN  /\ IF mw.timestamp_enabled
                THEN /\ Stamped(placed, last'.line)
                     /\ placed = _format_timestamp_prefix(now) \o <<" ">> \o last'.line
                ELSE placed = last'.line
             /\ (mw.listener # 0 /\ mw.live_log_handle /\ faults' = faults) =>
                   /\ Len(mw'.file) = Len(mw.file) + 1
                   /\ Last(mw'.file) = placed]_vars

\* a stamped line has arrived, after the clock had moved on, during a pause
\* and is in the file and in the PauseBuffer
C38_Witness ==
    /\ last.op = "line"
    /\ clock = Len(Instants)
    /\ mw.ui_paused
    /\ mw.pause_buffer # <<>>
    /\ Len(mw.file) > 1
    /\ Last(mw.file) = Last(mw.pause_buffer)
    /\ Stamped(Last(mw.file), last.line)

\* C39: after every flush that has shown a batch the number of visible
\* lines is at most maxLines, whatever was appended to the display outside
\* the queue and however maxLines was changed within its range.
C39_VisibleAtMostMaxLines ==
    [][(FlushStep /\ mw.queue # <<>>) => blockCount(mw'.log) <= maxLines(mw')]_vars

\* C40: after any sequence of add, edit, remove and reset operations each
\* rule list has exactly SLOT_COUNT entries and the compiled filter and
\* exclude matchers the pipeline uses are the compilation of the current
\* slots.
C40_CompiledMatchersCurrent ==
    /\ Len(mw.filter_slots) = SLOT_COUNT
    /\ Len(mw.exclude_slots) = SLOT_COUNT
    /\ mw.filter_slot_patterns = _compile_slot_patterns(mw.filter_slots)
    /\ mw.exclude_slot_patterns = _compile_slot_patterns(mw.exclude_slots)

====
